---- MODULE Spec2Model ----
(***************************************************************************)
(* AnchorKit contract (src/src/lib.rs, src/src/storage.rs, src/src/types.rs) *)
(* as a state machine.  `store` is the contract storage, one field per     *)
(* StorageKey variant; `ledger` is env.ledger(); `last` records the most   *)
(* recent entry-point call (name, error, value).  Every entry point        *)
(* is an operator from (store, ledger, arguments) to a result record       *)
(* [err, ret, st]: err is "Ok" or the Error variant returned, ret the      *)
(* value returned, st the storage as the function's own statements leave   *)
(* it, in statement order.  A `?` in the source is an early return of the  *)
(* callee's error with the storage as written up to that statement.        *)
(***************************************************************************)
EXTENDS Integers, Sequences, FiniteSets, TLC

VARIABLES store, ledger, last, accepted

vars == <<store, ledger, last, accepted>>

----------------------------------------------------------------------------
(* Bounds of the model *)

\* Ledger closes modelled; the ledger timestamp runs over 0..MaxTime.
MaxTime == 1
\* Largest value of the (narrowed) u64 type: checked_add fails above it.
U64Max == 7
\* Caps of the attestation-ledger specification.
MaxSessions == 1
MaxAttestations == 2
MaxAuditLogs == 2
\* Caps of the audit-trail specification.
MaxTrailSessions == 2
MaxTrailLogs == 3
\* Caps of the intent-builder specification.
MaxIntentSessions == 2
MaxIntentLogs == 2
MaxQuotes == 1
MaxIntents == 1
\* Caps of the quote-registry specification.
MaxRegistryLogs == 2
MaxRegistryQuotes == 2
MaxRegistryIntents == 1
\* Caps of the stored-records specification.
MaxRecordLogs == 3
MaxRecordQuotes == 2
MaxRecordAttestations == 2
\* Caps of the transfer specification.
MaxTransferIds == 3
MaxTransferLogs == 2
\* Caps of the interleaving specification.
MaxConcSessions == 2
MaxConcLogs == 3
MaxConcAttestations == 2
MaxConcQuotes == 1
MaxConcIntents == 1
\* Longest list of valid quotes compared.
MaxValidQuotes == 3
\* Caps of the read specification.
MaxReadLogs == 2
MaxReadQuotes == 2
\* Cap of the service-configuration specification.
MaxServiceLogs == 3
\* Caps of the administration specification.
MaxAdminSessions == 1
MaxAdminLogs == 3

Address == {"GA", "GB"}
Hash == {"h1", "h2"}
ServiceType == {"Deposits", "Withdrawals", "Quotes", "KYC"}
None == "None"
NoValue == "none"

----------------------------------------------------------------------------
(* Storage *)

EmptyStore ==
    [ Admin                 |-> None,
      Attestor              |-> {},
      Counter               |-> 0,
      Attestation           |-> << >>,
      UsedHash              |-> {},
      AnchorServices        |-> << >>,
      Quote                 |-> << >>,
      QuoteCounter          |-> 0,
      IntentCounter         |-> 0,
      SessionCounter        |-> 0,
      Session               |-> << >>,
      SessionNonce          |-> << >>,
      AuditLogCounter       |-> 0,
      AuditLog              |-> << >>,
      SessionOperationCount |-> << >> ]

\* persistent().set(key, value): insert or overwrite.
Put(f, k, v) == (k :> v) @@ f

Ok(st, v) == [err |-> "Ok", ret |-> v, st |-> st]
Err(e, st) == [err |-> e, ret |-> NoValue, st |-> st]

\* Mutant: the admin key is never found.
has_admin_never(st) == FALSE

has_admin(st) == st.Admin # None

set_admin(st, admin) == [st EXCEPT !.Admin = admin]

get_admin(st) ==
    IF st.Admin = None THEN Err("NotInitialized", st) ELSE Ok(st, st.Admin)

\* Mutant: a registration is never taken back.
set_attestor_sticky(st, attestor, is_registered) ==
    [st EXCEPT !.Attestor = @ \cup {attestor}]

set_attestor(st, attestor, is_registered) ==
    [st EXCEPT !.Attestor = IF is_registered THEN @ \cup {attestor}
                                             ELSE @ \ {attestor}]

\* Mutant: every address passes for a registered attestor.
is_attestor_any(st, attestor) == TRUE

\* Mutant: an anchor with stored services still counts as registered.
is_attestor_or_configured(st, attestor) ==
    attestor \in st.Attestor \/ attestor \in DOMAIN st.AnchorServices

is_attestor(st, attestor) == attestor \in st.Attestor

\* Returns <<storage, value>>: the counter before the increment.
get_and_increment_counter(st) ==
    <<[st EXCEPT !.Counter = @ + 1], st.Counter>>

set_attestation(st, id, attestation) ==
    [st EXCEPT !.Attestation = Put(@, id, attestation)]

\* Mutant: the hash is not recorded.
mark_hash_used_skipped(st, hash) == st

mark_hash_used(st, hash) == [st EXCEPT !.UsedHash = @ \cup {hash}]

\* Mutant: the replay guard never finds a hash.
is_hash_used_never(st, hash) == FALSE

is_hash_used(st, hash) == hash \in st.UsedHash

set_anchor_services(st, services) ==
    [st EXCEPT !.AnchorServices = Put(@, services.anchor, services)]

get_anchor_services(st, anchor) ==
    IF anchor \in DOMAIN st.AnchorServices
    THEN Ok(st, st.AnchorServices[anchor])
    ELSE Err("ServicesNotConfigured", st)

\* Mutant: an anchor's quotes all go to one key.
set_quote_single_slot(st, quote) ==
    [st EXCEPT !.Quote = Put(@, <<quote.anchor, 1>>, quote)]

set_quote(st, quote) ==
    [st EXCEPT !.Quote = Put(@, <<quote.anchor, quote.quote_id>>, quote)]

\* Mutant: the quote is looked up by its id alone, whichever anchor holds it.
get_quote_any_anchor(st, anchor, quote_id) ==
    IF \E k \in DOMAIN st.Quote : k[2] = quote_id
    THEN <<st.Quote[CHOOSE k \in DOMAIN st.Quote : k[2] = quote_id]>>
    ELSE << >>

\* Mutant: the quote is returned without its rate.
get_quote_unpriced(st, anchor, quote_id) ==
    IF <<anchor, quote_id>> \in DOMAIN st.Quote
    THEN <<[st.Quote[<<anchor, quote_id>>] EXCEPT !.rate = 0]>>
    ELSE << >>

\* Option<QuoteData>: <<>> is None, <<q>> is Some(q).
get_quote(st, anchor, quote_id) ==
    IF <<anchor, quote_id>> \in DOMAIN st.Quote
    THEN <<st.Quote[<<anchor, quote_id>>]>>
    ELSE << >>

\* Mutant: the id handed out is the counter before the increment.
get_next_quote_id_pre(st) ==
    <<[st EXCEPT !.QuoteCounter = @ + 1], st.QuoteCounter>>

get_next_quote_id(st) ==
    <<[st EXCEPT !.QuoteCounter = @ + 1], st.QuoteCounter + 1>>

get_next_intent_id(st) ==
    <<[st EXCEPT !.IntentCounter = @ + 1], st.IntentCounter + 1>>

\* Mutant: session ids start at 1.
get_and_increment_session_counter_from_one(st) ==
    <<[st EXCEPT !.SessionCounter = @ + 1], st.SessionCounter + 1>>

\* Mutant: the session counter is read but not advanced.
get_and_increment_session_counter_stuck(st) == <<st, st.SessionCounter>>

get_and_increment_session_counter(st) ==
    <<[st EXCEPT !.SessionCounter = @ + 1], st.SessionCounter>>

storage_create_session(st, lg, initiator) ==
    LET c == get_and_increment_session_counter(st)
        session_id == c[2]
        nonce == lg.sequence
        session == [ session_id      |-> session_id,
                     initiator       |-> initiator,
                     created_at      |-> lg.timestamp,
                     operation_count |-> 0,
                     nonce           |-> nonce ]
    IN <<[c[1] EXCEPT !.Session = Put(@, session_id, session),
                      !.SessionNonce = Put(@, session_id, nonce)],
         session_id>>

\* Mutant: a session that has logged an operation is closed.
get_session_closed(st, session_id) ==
    IF session_id \in DOMAIN st.Session /\ session_id \notin DOMAIN st.SessionOperationCount
    THEN Ok(st, st.Session[session_id])
    ELSE Err("SessionNotFound", st)

get_session(st, session_id) ==
    IF session_id \in DOMAIN st.Session
    THEN Ok(st, st.Session[session_id])
    ELSE Err("SessionNotFound", st)

\* Mutant: the count is read from the session record, which is never updated.
get_session_operation_count_from_record(st, session_id) ==
    IF session_id \in DOMAIN st.Session
    THEN st.Session[session_id].operation_count
    ELSE 0

storage_get_session_operation_count(st, session_id) ==
    IF session_id \in DOMAIN st.SessionOperationCount
    THEN st.SessionOperationCount[session_id]
    ELSE 0

\* Mutant: the count is also written into the session record.
increment_session_operation_count_in_record(st, session_id) ==
    LET count == IF session_id \in DOMAIN st.SessionOperationCount
                 THEN st.SessionOperationCount[session_id] ELSE 0
    IN <<[st EXCEPT !.SessionOperationCount = Put(@, session_id, count + 1),
                    !.Session = Put(@, session_id,
                                    [st.Session[session_id] EXCEPT
                                        !.operation_count = count + 1])],
         count>>

\* Mutant: the count after the increment is returned.
increment_session_operation_count_post(st, session_id) ==
    LET count == IF session_id \in DOMAIN st.SessionOperationCount
                 THEN st.SessionOperationCount[session_id] ELSE 0
    IN <<[st EXCEPT !.SessionOperationCount = Put(@, session_id, count + 1)],
         count + 1>>

\* Returns <<storage, value>>: the count before the increment.
increment_session_operation_count(st, session_id) ==
    LET count == IF session_id \in DOMAIN st.SessionOperationCount
                 THEN st.SessionOperationCount[session_id] ELSE 0
    IN <<[st EXCEPT !.SessionOperationCount = Put(@, session_id, count + 1)],
         count>>

\* Mutant: the id handed out is the counter after the increment.
get_and_increment_audit_counter_post(st) ==
    <<[st EXCEPT !.AuditLogCounter = @ + 1], st.AuditLogCounter + 1>>

get_and_increment_audit_counter(st) ==
    <<[st EXCEPT !.AuditLogCounter = @ + 1], st.AuditLogCounter>>

\* Mutant: the log id is allocated but no entry is written.
log_operation_dropped(st, session_id, actor, operation) ==
    LET c == get_and_increment_audit_counter(st)
    IN <<c[1], c[2]>>

log_operation(st, session_id, actor, operation) ==
    LET c == get_and_increment_audit_counter(st)
        log_id == c[2]
        audit_log == [ log_id     |-> log_id,
                       session_id |-> session_id,
                       operation  |-> operation,
                       actor      |-> actor ]
    IN <<[c[1] EXCEPT !.AuditLog = Put(@, log_id, audit_log)], log_id>>

storage_get_audit_log(st, log_id) ==
    IF log_id \in DOMAIN st.AuditLog
    THEN Ok(st, st.AuditLog[log_id])
    ELSE Err("SessionNotFound", st)

----------------------------------------------------------------------------
(* Contract helpers (lib.rs) *)

\* Mutant: only neighbouring entries are compared.
validate_services_adjacent(services) ==
    IF Len(services) = 0 THEN "InvalidServiceType"
    ELSE IF \E i \in 1..(Len(services) - 1) : services[i] = services[i + 1]
         THEN "InvalidServiceType"
         ELSE "Ok"

validate_services(services) ==
    IF Len(services) = 0 THEN "InvalidServiceType"
    ELSE IF \E i \in 1..Len(services) : \E j \in (i + 1)..Len(services) :
                services[i] = services[j]
         THEN "InvalidServiceType"
         ELSE "Ok"

\* Mutant: every service is found in every list.
contains_any(services, service) == TRUE

contains(services, service) ==
    \E i \in 1..Len(services) : services[i] = service

\* Mutant: every service type is accepted as an operation.
validate_transaction_operation_any(operation_type) == "Ok"

validate_transaction_operation(operation_type) ==
    IF operation_type \in {"Deposits", "Withdrawals"} THEN "Ok"
    ELSE "InvalidServiceType"

verify_signature(issuer, subject, timestamp, payload_hash, signature) == "Ok"

\* u64::checked_add: <<>> (None) on overflow, <<a + b>> otherwise.
checked_add(a, b) == IF a + b > U64Max THEN << >> ELSE <<a + b>>

log_session_operation(st, lg, session_id, actor, operation_type, status, result_data) ==
    LET s == get_session(st, session_id)
    IN IF s.err # "Ok" THEN Err(s.err, st)
       ELSE
         LET c == increment_session_operation_count(st, session_id)
             operation_index == c[2]
             operation == [ session_id      |-> session_id,
                            operation_index |-> operation_index,
                            operation_type  |-> operation_type,
                            timestamp       |-> lg.timestamp,
                            status          |-> status,
                            result_data     |-> result_data ]
             l == log_operation(c[1], session_id, actor, operation)
         IN Ok(l[1], l[2])

----------------------------------------------------------------------------
(* Entry points (lib.rs) *)

initialize(st, admin) ==
    IF has_admin(st) THEN Err("AlreadyInitialized", st)
    ELSE Ok(set_admin(st, admin), NoValue)

create_session(st, lg, initiator) ==
    LET a == get_admin(st)
    IN IF a.err # "Ok" THEN Err(a.err, st)
       ELSE LET c == storage_create_session(st, lg, initiator)
            IN Ok(c[1], c[2])

\* Mutant: reading the count is itself counted as an operation.
get_session_operation_count_counted(st, session_id) ==
    LET s == get_session(st, session_id)
    IN IF s.err # "Ok" THEN Err(s.err, st)
       ELSE LET c == increment_session_operation_count(st, session_id)
            IN Ok(c[1], c[2])

get_session_operation_count(st, session_id) ==
    LET s == get_session(st, session_id)
    IN IF s.err # "Ok" THEN Err(s.err, st)
       ELSE Ok(st, storage_get_session_operation_count(st, session_id))

\* Mutant: the fee is applied to the rate, whatever the amount.
calculate_effective_rate_flat(quote, amount) ==
    (quote.rate * (10000 + quote.fee_percentage)) \div 10000

calculate_effective_rate(quote, amount) ==
    LET base_rate == quote.rate
        fee_amount == (amount * quote.fee_percentage) \div 10000
        effective_amount == amount + fee_amount
    IN (base_rate * effective_amount) \div amount

\* The selection loop of compare_rates_for_anchors from index i on (1-based).
RECURSIVE scan_valid_quotes(_, _, _, _, _)
scan_valid_quotes(valid_quotes, amount, i, best_quote, best_effective_rate) ==
    IF i > Len(valid_quotes)
    THEN [best_quote |-> best_quote, best_effective_rate |-> best_effective_rate]
    ELSE LET quote == valid_quotes[i]
             effective_rate == calculate_effective_rate(quote, amount)
         IN IF effective_rate < best_effective_rate
            THEN scan_valid_quotes(valid_quotes, amount, i + 1, quote, effective_rate)
            ELSE scan_valid_quotes(valid_quotes, amount, i + 1, best_quote,
                                   best_effective_rate)

\* The best quote of a non-empty list of valid quotes.
select_best_quote(valid_quotes, amount) ==
    scan_valid_quotes(valid_quotes, amount, 2, valid_quotes[1],
                      calculate_effective_rate(valid_quotes[1], amount))

\* Mutant: the anchor's stored quote with the highest id is found.
get_latest_quote_for_anchor_indexed(st, anchor, request) ==
    LET ids == {k[2] : k \in {q \in DOMAIN st.Quote : q[1] = anchor}}
    IN IF ids = {} THEN << >>
       ELSE <<st.Quote[<<anchor, CHOOSE i \in ids : \A j \in ids : j <= i>>]>>

\* Option<QuoteData>: always None.
get_latest_quote_for_anchor(st, anchor, request) == << >>

\* The filter loop of compare_rates_for_anchors from index i on (1-based).
RECURSIVE collect_valid_quotes(_, _, _, _, _, _)
collect_valid_quotes(st, request, anchors, current_timestamp, i, valid_quotes) ==
    IF i > Len(anchors) THEN valid_quotes
    ELSE LET found == get_latest_quote_for_anchor(st, anchors[i], request)
             quote == found[1]
         IN IF found # << >>
               /\ quote.valid_until > current_timestamp
               /\ quote.base_asset = request.base_asset
               /\ quote.quote_asset = request.quote_asset
               /\ request.amount >= quote.minimum_amount
               /\ request.amount <= quote.maximum_amount
            THEN collect_valid_quotes(st, request, anchors, current_timestamp, i + 1,
                                      Append(valid_quotes, quote))
            ELSE collect_valid_quotes(st, request, anchors, current_timestamp, i + 1,
                                      valid_quotes)

compare_rates_for_anchors(st, lg, request, anchors) ==
    LET current_timestamp == lg.timestamp
        valid_quotes == collect_valid_quotes(st, request, anchors, current_timestamp,
                                             1, << >>)
    IN IF valid_quotes = << >> THEN Err("NoQuotesAvailable", st)
       ELSE Ok(st, [ best_quote |-> select_best_quote(valid_quotes,
                                                       request.amount).best_quote,
                     all_quotes |-> valid_quotes,
                     comparison_timestamp |-> current_timestamp ])

----------------------------------------------------------------------------
(* Credentials (credentials.rs) *)

\* Mutant: a credential expires only after its expiry time has passed.
is_expired_strict(credential, current_timestamp) ==
    credential.expires_at > 0 /\ current_timestamp > credential.expires_at

is_expired(credential, current_timestamp) ==
    credential.expires_at > 0 /\ current_timestamp >= credential.expires_at

\* u64::saturating_sub.
saturating_sub(a, b) == IF a >= b THEN a - b ELSE 0

\* Mutant: the age is the distance between the two times.
needs_rotation_distance(credential, current_timestamp, policy) ==
    IF credential.rotation_required THEN TRUE
    ELSE IF policy.rotation_interval_seconds > 0
    THEN LET age == IF current_timestamp >= credential.created_at
                    THEN current_timestamp - credential.created_at
                    ELSE credential.created_at - current_timestamp
         IN age >= policy.rotation_interval_seconds
    ELSE FALSE

needs_rotation(credential, current_timestamp, policy) ==
    IF credential.rotation_required THEN TRUE
    ELSE IF policy.rotation_interval_seconds > 0
    THEN LET age == saturating_sub(current_timestamp, credential.created_at)
         IN age >= policy.rotation_interval_seconds
    ELSE FALSE

----------------------------------------------------------------------------
(* Read entry points (lib.rs) *)

\* AnchorKitContract::get_session.
contract_get_session(st, session_id) == get_session(st, session_id)

\* AnchorKitContract::get_audit_log.
get_audit_log(st, log_id) == storage_get_audit_log(st, log_id)

\* AnchorKitContract::get_quote(env, anchor, quote_id).
contract_get_quote(st, anchor, quote_id) ==
    LET q == get_quote(st, anchor, quote_id)
    IN IF q = << >> THEN Err("QuoteNotFound", st) ELSE Ok(st, q[1])

get_supported_services(st, anchor) ==
    LET a == get_anchor_services(st, anchor)
    IN IF a.err # "Ok" THEN Err(a.err, st) ELSE Ok(st, a.ret.services)

supports_service(st, anchor, service) ==
    LET a == get_anchor_services(st, anchor)
    IN IF a.err = "Ok" THEN Ok(st, contains(a.ret.services, service))
       ELSE Ok(st, FALSE)

\* Mutant: the next id is returned without advancing the counter.
initiate_transfer_peek(st, sender, destination, amount) ==
    Ok(st, st.IntentCounter + 1)

initiate_transfer(st, sender, destination, amount) ==
    LET c == get_next_intent_id(st)
        transfer_id == c[2]
    IN Ok(c[1], transfer_id)

\* Mutant: the guarded error is returned without logging.
LoggedFailure_unlogged(st, lg, session_id, actor, operation_type, e) == Err(e, st)

\* The three failure paths log "failed" and then return the guarded error;
\* a failure of the logging call itself is returned instead (the `?`).
LoggedFailure(st, lg, session_id, actor, operation_type, e) ==
    LET l == log_session_operation(st, lg, session_id, actor, operation_type, "failed", 0)
    IN IF l.err # "Ok" THEN Err(l.err, l.st) ELSE Err(e, l.st)

submit_attestation_with_session(st, lg, session_id, issuer, subject, timestamp, payload_hash, signature) ==
    IF timestamp = 0
    THEN LoggedFailure(st, lg, session_id, issuer, "attest", "InvalidTimestamp")
    ELSE IF ~is_attestor(st, issuer)
    THEN LoggedFailure(st, lg, session_id, issuer, "attest", "UnauthorizedAttestor")
    ELSE IF is_hash_used(st, payload_hash)
    THEN LoggedFailure(st, lg, session_id, issuer, "attest", "ReplayAttack")
    ELSE IF verify_signature(issuer, subject, timestamp, payload_hash, signature) # "Ok"
    THEN Err(verify_signature(issuer, subject, timestamp, payload_hash, signature), st)
    ELSE
      LET c == get_and_increment_counter(st)
          id == c[2]
          attestation == [ id           |-> id,
                           issuer       |-> issuer,
                           subject      |-> subject,
                           timestamp    |-> timestamp,
                           payload_hash |-> payload_hash,
                           signature    |-> signature ]
          st1 == set_attestation(c[1], id, attestation)
          st2 == mark_hash_used(st1, payload_hash)
          l == log_session_operation(st2, lg, session_id, issuer, "attest", "success", id)
      IN IF l.err # "Ok" THEN Err(l.err, l.st) ELSE Ok(l.st, id)

register_attestor_with_session(st, lg, session_id, attestor) ==
    LET a == get_admin(st)
    IN IF a.err # "Ok" THEN Err(a.err, st)
       ELSE IF is_attestor(st, attestor)
       THEN LoggedFailure(st, lg, session_id, a.ret, "register", "AttestorAlreadyRegistered")
       ELSE
         LET st1 == set_attestor(st, attestor, TRUE)
             l == log_session_operation(st1, lg, session_id, a.ret, "register", "success", 0)
         IN IF l.err # "Ok" THEN Err(l.err, l.st) ELSE Ok(l.st, NoValue)

revoke_attestor_with_session(st, lg, session_id, attestor) ==
    LET a == get_admin(st)
    IN IF a.err # "Ok" THEN Err(a.err, st)
       ELSE IF ~is_attestor(st, attestor)
       THEN LoggedFailure(st, lg, session_id, a.ret, "revoke", "AttestorNotRegistered")
       ELSE
         LET st1 == set_attestor(st, attestor, FALSE)
             l == log_session_operation(st1, lg, session_id, a.ret, "revoke", "success", 0)
         IN IF l.err # "Ok" THEN Err(l.err, l.st) ELSE Ok(l.st, NoValue)

configure_services(st, anchor, services) ==
    LET a == get_admin(st)
    IN IF a.err # "Ok" THEN Err(a.err, st)
       ELSE IF validate_services(services) # "Ok"
       THEN Err(validate_services(services), st)
       ELSE IF ~is_attestor(st, anchor) THEN Err("AttestorNotRegistered", st)
       ELSE Ok(set_anchor_services(st, [anchor |-> anchor, services |-> services]),
               NoValue)

\* Mutant: a quote may be submitted at the very time it stops being valid.
quote_terms_invalid_lax(rate, valid_until, now) == rate = 0 \/ valid_until < now

\* lib.rs:396, the terms submit_quote refuses.
quote_terms_invalid(rate, valid_until, now) == rate = 0 \/ valid_until <= now

\* Mutant: the services are examined before the terms of the quote.
submit_quote_services_first(st, lg, anchor, base_asset, quote_asset, rate, fee_percentage, minimum_amount, maximum_amount, valid_until) ==
    IF ~is_attestor(st, anchor) THEN Err("UnauthorizedAttestor", st)
    ELSE
      LET s == get_anchor_services(st, anchor)
      IN IF s.err # "Ok" THEN Err("ServicesNotConfigured", st)
         ELSE IF ~contains(s.ret.services, "Quotes") THEN Err("InvalidServiceType", st)
         ELSE IF quote_terms_invalid(rate, valid_until, lg.timestamp)
         THEN Err("InvalidQuote", st)
         ELSE
           LET c == get_next_quote_id(st)
               quote_id == c[2]
               quote == [ anchor         |-> anchor,
                          base_asset     |-> base_asset,
                          quote_asset    |-> quote_asset,
                          rate           |-> rate,
                          fee_percentage |-> fee_percentage,
                          minimum_amount |-> minimum_amount,
                          maximum_amount |-> maximum_amount,
                          valid_until    |-> valid_until,
                          quote_id       |-> quote_id ]
           IN Ok(set_quote(c[1], quote), quote_id)

submit_quote(st, lg, anchor, base_asset, quote_asset, rate, fee_percentage, minimum_amount, maximum_amount, valid_until) ==
    IF ~is_attestor(st, anchor) THEN Err("UnauthorizedAttestor", st)
    ELSE IF quote_terms_invalid(rate, valid_until, lg.timestamp) THEN Err("InvalidQuote", st)
    ELSE
      LET s == get_anchor_services(st, anchor)
      IN IF s.err # "Ok" THEN Err("ServicesNotConfigured", st)
         ELSE IF ~contains(s.ret.services, "Quotes") THEN Err("InvalidServiceType", st)
         ELSE
           LET c == get_next_quote_id(st)
               quote_id == c[2]
               quote == [ anchor         |-> anchor,
                          base_asset     |-> base_asset,
                          quote_asset    |-> quote_asset,
                          rate           |-> rate,
                          fee_percentage |-> fee_percentage,
                          minimum_amount |-> minimum_amount,
                          maximum_amount |-> maximum_amount,
                          valid_until    |-> valid_until,
                          quote_id       |-> quote_id ]
           IN Ok(set_quote(c[1], quote), quote_id)

\* Mutant: no quote is ever stale.
quote_is_stale_never(quote, now) == FALSE

\* Mutant: a quote is still usable at its valid_until.
quote_is_stale_strict(quote, now) == quote.valid_until < now

\* lib.rs:197, the staleness test of a quote at time `now`.
quote_is_stale(quote, now) == quote.valid_until <= now

\* lib.rs:201-204, the quote does not fit the request.
quote_mismatch(quote, request) ==
    \/ quote.base_asset # request.base_asset
    \/ quote.quote_asset # request.quote_asset
    \/ request.amount < quote.minimum_amount
    \/ request.amount > quote.maximum_amount

\* Mutant: the quote's validity does not shorten the intent's.
tighten_expiry_never(expires_at, quote) == expires_at

\* lib.rs:212-214, expires_at after a quote has been accepted.
tighten_expiry(expires_at, quote) ==
    IF quote.valid_until < expires_at THEN quote.valid_until ELSE expires_at

\* Mutant: the session is not looked up before the intent is committed.
check_intent_session_skipped(st, session_id) == "Ok"

\* lib.rs:180-182, the session lookup made when the builder names a session.
check_intent_session(st, session_id) ==
    IF session_id # 0 THEN get_session(st, session_id).err ELSE "Ok"

\* lib.rs:217-243: allocate the id, construct the intent, log it if bound to
\* a session.
commit_intent(st, lg, builder, now, expires_at, has_quote, rate, fee_percentage) ==
    LET c == get_next_intent_id(st)
        intent == [ intent_id      |-> c[2],
                    anchor         |-> builder.anchor,
                    request        |-> builder.request,
                    quote_id       |-> builder.quote_id,
                    has_quote      |-> has_quote,
                    rate           |-> rate,
                    fee_percentage |-> fee_percentage,
                    requires_kyc   |-> builder.require_kyc,
                    session_id     |-> builder.session_id,
                    created_at     |-> now,
                    expires_at     |-> expires_at ]
    IN IF intent.session_id # 0
       THEN LET l == log_session_operation(c[1], lg, intent.session_id, intent.anchor,
                                           "intent", "success", intent.intent_id)
            IN IF l.err # "Ok" THEN Err(l.err, l.st) ELSE Ok(l.st, intent)
       ELSE Ok(c[1], intent)

build_transaction_intent(st, lg, builder) ==
    LET a == get_admin(st)
        s == get_anchor_services(st, builder.anchor)
        now == lg.timestamp
        sum == checked_add(now, builder.ttl_seconds)
        expires_at == sum[1]
        found == get_quote(st, builder.anchor, builder.quote_id)
        quote == found[1]
    IN IF a.err # "Ok" THEN Err(a.err, st)
       ELSE IF ~is_attestor(st, builder.anchor) THEN Err("UnauthorizedAttestor", st)
       ELSE IF validate_transaction_operation(builder.request.operation_type) # "Ok"
       THEN Err(validate_transaction_operation(builder.request.operation_type), st)
       ELSE IF builder.request.amount = 0 \/ builder.ttl_seconds = 0
       THEN Err("InvalidTransactionIntent", st)
       ELSE IF s.err # "Ok" THEN Err(s.err, st)
       ELSE IF ~contains(s.ret.services, builder.request.operation_type)
       THEN Err("InvalidServiceType", st)
       ELSE IF builder.require_kyc /\ ~contains(s.ret.services, "KYC")
       THEN Err("ComplianceNotMet", st)
       ELSE IF check_intent_session(st, builder.session_id) # "Ok"
       THEN Err(check_intent_session(st, builder.session_id), st)
       ELSE IF sum = << >> THEN Err("InvalidTransactionIntent", st)
       ELSE IF builder.quote_id # 0
       THEN IF found = << >> THEN Err("QuoteNotFound", st)
            ELSE IF quote_is_stale(quote, now) THEN Err("StaleQuote", st)
            ELSE IF quote_mismatch(quote, builder.request) THEN Err("InvalidQuote", st)
            ELSE commit_intent(st, lg, builder, now, tighten_expiry(expires_at, quote),
                               TRUE, quote.rate, quote.fee_percentage)
       ELSE commit_intent(st, lg, builder, now, expires_at, FALSE, 0, 0)

----------------------------------------------------------------------------
(* State machine.  Each action is one call of an entry point, with its     *)
(* arguments drawn from the sets it is given.                               *)

Signature == "sig"

Call(op, r) == [op |-> op, err |-> r.err, ret |-> r.ret]

Init ==
    /\ store = EmptyStore
    /\ ledger = [timestamp |-> 0, sequence |-> 0]
    /\ last = [op |-> "none", err |-> "Ok", ret |-> NoValue]
    /\ accepted = [h \in Hash |-> 0]

\* A call of an entry point with result r.
Step(op, r) ==
    /\ store' = r.st
    /\ last' = Call(op, r)
    /\ UNCHANGED ledger

Initialize(Admins) ==
    \E admin \in Admins :
        /\ Step("initialize", initialize(store, admin))
        /\ UNCHANGED accepted

CreateSession(Initiators) ==
    \E initiator \in Initiators :
        /\ Step("create_session", create_session(store, ledger, initiator))
        /\ UNCHANGED accepted

SubmitAttestationWithSession(Sids, Issuers, Subjects, Timestamps, Hashes) ==
    \E session_id \in Sids, issuer \in Issuers, subject \in Subjects,
       timestamp \in Timestamps, payload_hash \in Hashes :
        LET r == submit_attestation_with_session(store, ledger, session_id, issuer,
                     subject, timestamp, payload_hash, Signature)
        IN /\ Step("submit_attestation_with_session", r)
           /\ accepted' = IF r.err = "Ok"
                          THEN [accepted EXCEPT ![payload_hash] = @ + 1]
                          ELSE accepted

RegisterAttestorWithSession(Sids, Attestors) ==
    \E session_id \in Sids, attestor \in Attestors :
        /\ Step("register_attestor_with_session",
                register_attestor_with_session(store, ledger, session_id, attestor))
        /\ UNCHANGED accepted

RevokeAttestorWithSession(Sids, Attestors) ==
    \E session_id \in Sids, attestor \in Attestors :
        /\ Step("revoke_attestor_with_session",
                revoke_attestor_with_session(store, ledger, session_id, attestor))
        /\ UNCHANGED accepted

ConfigureServices(Anchors, Lists) ==
    \E anchor \in Anchors, services \in Lists :
        /\ Step("configure_services",
                configure_services(store, anchor, services))
        /\ UNCHANGED accepted

SubmitQuote(Anchors, Quotes) ==
    \E anchor \in Anchors, q \in Quotes :
        /\ Step("submit_quote",
                submit_quote(store, ledger, anchor, q.base_asset, q.quote_asset,
                             q.rate, q.fee_percentage, q.minimum_amount,
                             q.maximum_amount, q.valid_until))
        /\ UNCHANGED accepted

BuildTransactionIntent(Builders) ==
    \E builder \in Builders :
        /\ Step("build_transaction_intent",
                build_transaction_intent(store, ledger, builder))
        /\ UNCHANGED accepted

\* The ledger closes: time and sequence number advance.
Tick ==
    /\ ledger.timestamp < MaxTime
    /\ ledger' = [timestamp |-> ledger.timestamp + 1, sequence |-> ledger.sequence + 1]
    /\ last' = [op |-> "tick", err |-> "Ok", ret |-> NoValue]
    /\ UNCHANGED <<store, accepted>>

----------------------------------------------------------------------------------------------------------------------------------------
(* Attestation ledger: the registry, the replay guard and the session the  *)
(* calls are logged to.  Session id MaxSessions never names a session.     *)

SessionIds == 0..MaxSessions

AttestBounds(st) ==
    /\ st.SessionCounter <= MaxSessions
    /\ st.Counter <= MaxAttestations
    /\ st.AuditLogCounter <= MaxAuditLogs

NextAttest ==
    \/ Initialize({"GA"}) /\ AttestBounds(store')
    \/ CreateSession({"GB"}) /\ AttestBounds(store')
    \/ RegisterAttestorWithSession(SessionIds, Address) /\ AttestBounds(store')
    \/ RevokeAttestorWithSession(SessionIds, {"GA"}) /\ AttestBounds(store')
    \/ SubmitAttestationWithSession(SessionIds, {"GA"}, {"GB"}, {0, 1}, Hash)
         /\ AttestBounds(store')

SpecAttest == Init /\ [][NextAttest]_vars

----------------------------------------------------------------------------
(* Claims on the attestation ledger *)

\* The audit entries of session sid, as a set of log ids.
TrailOf(st, sid) == {i \in DOMAIN st.AuditLog : st.AuditLog[i].session_id = sid}

\* Every submit_attestation_with_session call on the current state.
SubmitResult(sid, issuer, subject, ts, h) ==
    submit_attestation_with_session(store, ledger, sid, issuer, subject, ts, h, Signature)

\* C1: replay uniqueness.  For every payload hash at most one
\* submit_attestation_with_session call carrying it has succeeded; in every
\* reachable state a call that carries an already used hash, with a nonzero
\* timestamp, a registered issuer and an existing session, fails with
\* ReplayAttack whatever its issuer and subject; a successful call leaves its
\* hash in the used-hash set; and no step removes a hash from that set.
C1_ReplayUniqueness ==
    /\ [](\A h \in Hash : accepted[h] <= 1)
    /\ [](\A h \in store.UsedHash, sid \in DOMAIN store.Session,
             issuer \in store.Attestor, subject \in Address, ts \in {1, 2} :
               SubmitResult(sid, issuer, subject, ts, h).err = "ReplayAttack")
    /\ [](\A h \in Hash, sid \in SessionIds, issuer \in Address, ts \in {0, 1} :
               LET r == SubmitResult(sid, issuer, "GB", ts, h)
               IN r.err = "Ok" => h \notin store.UsedHash /\ h \in r.st.UsedHash)
    /\ [][store.UsedHash \subseteq store'.UsedHash]_vars

\* A hash has been accepted once and a second submission of it, by a
\* registered issuer on an existing session, has just been rejected.
C1_Witness ==
    /\ last.op = "submit_attestation_with_session"
    /\ last.err = "ReplayAttack"
    /\ \E h \in Hash : accepted[h] = 1
    /\ Cardinality(store.Attestor) = 2

\* C2: no two stored attestations share a payload_hash, and the payload_hash
\* of every stored attestation is in the used-hash set.
C2_StoredHashesUnique ==
    /\ \A i, j \in DOMAIN store.Attestation :
          i # j => store.Attestation[i].payload_hash # store.Attestation[j].payload_hash
    /\ \A i \in DOMAIN store.Attestation :
          store.Attestation[i].payload_hash \in store.UsedHash

\* Two attestations are stored.
C2_Witness == Cardinality(DOMAIN store.Attestation) = 2

\* st2 is st with one more audit entry, of session sid and status "failed".
FailedLogged(st, st2, sid) ==
    /\ st2.AuditLogCounter = st.AuditLogCounter + 1
    /\ TrailOf(st2, sid) = TrailOf(st, sid) \cup {st.AuditLogCounter}
    /\ st.AuditLogCounter \notin TrailOf(st, sid)
    /\ st2.AuditLog[st.AuditLogCounter].operation.status = "failed"
    /\ \A i \in DOMAIN st.AuditLog : st2.AuditLog[i] = st.AuditLog[i]

\* C5: failed attempts are audited.  On an existing session, a
\* submit_attestation_with_session call whose timestamp is 0, whose issuer is
\* unregistered or whose hash is used returns InvalidTimestamp,
\* UnauthorizedAttestor or ReplayAttack; on an initialized contract a
\* register of a registered attestor returns AttestorAlreadyRegistered and a
\* revoke of an unregistered one AttestorNotRegistered; and each such call
\* leaves the session's audit trail one entry longer, the new entry having
\* status "failed".
C5_FailuresAudited ==
    /\ \A sid \in DOMAIN store.Session, issuer \in Address, ts \in {0, 1}, h \in Hash :
          LET r == SubmitResult(sid, issuer, "GB", ts, h)
          IN /\ (ts = 0 \/ issuer \notin store.Attestor \/ h \in store.UsedHash)
                  => r.err \in {"InvalidTimestamp", "UnauthorizedAttestor", "ReplayAttack"}
             /\ r.err \in {"InvalidTimestamp", "UnauthorizedAttestor", "ReplayAttack"}
                  => FailedLogged(store, r.st, sid)
    /\ \A sid \in DOMAIN store.Session, a \in Address :
          LET r == register_attestor_with_session(store, ledger, sid, a)
              v == revoke_attestor_with_session(store, ledger, sid, a)
          IN /\ (store.Admin # None /\ a \in store.Attestor)
                  => r.err = "AttestorAlreadyRegistered"
             /\ r.err = "AttestorAlreadyRegistered" => FailedLogged(store, r.st, sid)
             /\ (store.Admin # None /\ a \notin store.Attestor)
                  => v.err = "AttestorNotRegistered"
             /\ v.err = "AttestorNotRegistered" => FailedLogged(store, v.st, sid)

\* A guarded operation has just failed and the newest audit entry records it.
C5_Witness ==
    /\ last.err \in {"InvalidTimestamp", "UnauthorizedAttestor", "ReplayAttack",
                     "AttestorAlreadyRegistered", "AttestorNotRegistered"}
    /\ store.AuditLogCounter > 0
    /\ store.AuditLog[store.AuditLogCounter - 1].operation.status = "failed"

\* C6: atomic commit.  A call that returns an error leaves the whole store as
\* it was before the call.
C6_AtomicCommit == [][last'.err # "Ok" => store' = store]_vars

----------------------------------------------------------------------------
(* Audit trail: several sessions, logged to by the session-bound calls,     *)
(* successes and failures alike.                                           *)

TrailSessionIds == 0..MaxTrailSessions

TrailBounds(st) ==
    /\ st.SessionCounter <= MaxTrailSessions
    /\ st.AuditLogCounter <= MaxTrailLogs

NextTrail ==
    \/ Initialize({"GA"}) /\ TrailBounds(store')
    \/ CreateSession({"GB"}) /\ TrailBounds(store')
    \/ RegisterAttestorWithSession(TrailSessionIds, {"GA"}) /\ TrailBounds(store')
    \/ SubmitAttestationWithSession(TrailSessionIds, Address, {"GB"}, {0, 1}, {"h1"})
         /\ TrailBounds(store')

SpecTrail == Init /\ [][NextTrail]_vars

\* C3: audit monotonicity.  Within every session the entry logged after n
\* earlier entries of that session has operation_index n (the first has 0),
\* and the operation_index values of the session's entries are exactly
\* 0..k-1, k being the session's operation count.
C3_AuditMonotonic ==
    \A sid \in DOMAIN store.Session :
        /\ \A i \in TrailOf(store, sid) :
              store.AuditLog[i].operation.operation_index =
                  Cardinality({j \in TrailOf(store, sid) : j < i})
        /\ {store.AuditLog[i].operation.operation_index : i \in TrailOf(store, sid)} =
              0..(storage_get_session_operation_count(store, sid) - 1)

\* Two sessions have entries, one of them at least two.
C3_Witness ==
    \E s, t \in DOMAIN store.Session :
        /\ s # t
        /\ Cardinality(TrailOf(store, s)) >= 2
        /\ Cardinality(TrailOf(store, t)) >= 1

\* C4: for every existing session get_session_operation_count returns the
\* number of audit entries logged for the session so far, failed ones
\* included, and 0 when nothing has been logged.
C4_CountMatchesTrail ==
    \A sid \in DOMAIN store.Session :
        LET r == get_session_operation_count(store, sid)
        IN /\ r.err = "Ok"
           /\ r.ret = Cardinality(TrailOf(store, sid))

\* One session has a failed and a successful entry, another has none.
C4_Witness ==
    \E s, t \in DOMAIN store.Session :
        /\ TrailOf(store, t) = {}
        /\ \E i, j \in TrailOf(store, s) :
              /\ store.AuditLog[i].operation.status = "failed"
              /\ store.AuditLog[j].operation.status = "success"

----------------------------------------------------------------------------
(* Intent builder: one anchor is registered and configured, submits quotes, *)
(* and intents are built for it while the ledger time advances.             *)

IntentSessionIds == 0..MaxIntentSessions

QuoteInputs ==
    [ base_asset     : {"USD"},
      quote_asset    : {"EUR"},
      rate           : {2},
      fee_percentage : {5},
      minimum_amount : {2},
      maximum_amount : {3},
      valid_until    : 1..(MaxTime + 1) ]

\* The builders the calls of the specification are made with.
CallBuilders ==
    [ anchor      : {"GA"},
      request     : [ base_asset : {"USD"}, quote_asset : {"EUR"}, amount : {2},
                      operation_type : {"Deposits"} ],
      quote_id    : {0, 1},
      require_kyc : {FALSE},
      session_id  : {0, 1},
      ttl_seconds : {3} ]

IntentBounds(st) ==
    /\ st.SessionCounter <= MaxIntentSessions
    /\ st.AuditLogCounter <= MaxIntentLogs
    /\ st.QuoteCounter <= MaxQuotes
    /\ st.IntentCounter <= MaxIntents

NextIntent ==
    \/ Initialize({"GA"}) /\ IntentBounds(store')
    \/ CreateSession({"GB"}) /\ IntentBounds(store')
    \/ RegisterAttestorWithSession({0}, {"GA"}) /\ IntentBounds(store')
    \/ ConfigureServices({"GA"}, {<<"Deposits", "Quotes">>, <<"Deposits", "Quotes", "KYC">>})
         /\ IntentBounds(store')
    \/ SubmitQuote({"GA"}, QuoteInputs) /\ IntentBounds(store')
    \/ BuildTransactionIntent(CallBuilders) /\ IntentBounds(store')
    \/ Tick

SpecIntent == Init /\ [][NextIntent]_vars


\* The builders the claims are stated over.
Requests ==
    [ base_asset     : {"USD", "XLM"},
      quote_asset    : {"EUR"},
      amount         : {0, 2, 4},
      operation_type : {"Deposits", "Withdrawals", "Quotes"} ]

Builders ==
    [ anchor      : Address,
      request     : Requests,
      quote_id    : 0..MaxQuotes,
      require_kyc : BOOLEAN,
      session_id  : IntentSessionIds,
      ttl_seconds : {0, 1, 3, U64Max} ]

BuildResult(b) == build_transaction_intent(store, ledger, b)

\* C7: in build_transaction_intent every check precedes every write.  A call
\* that fails leaves the store, the intent counter and the audit log
\* included, as it was; and the call fails with SessionNotFound only at the
\* session-existence check, that is only when the builder names a session
\* that does not exist, never at the final audit append.
C7_ChecksPrecedeWrites ==
    \A b \in Builders :
        LET r == BuildResult(b)
        IN /\ r.err # "Ok" => r.st = store
           /\ r.err = "SessionNotFound" =>
                 b.session_id # 0 /\ b.session_id \notin DOMAIN store.Session
           /\ (r.err = "Ok" /\ b.session_id # 0) =>
                 r.st.AuditLogCounter = store.AuditLogCounter + 1

\* An intent bound to a session has been built and logged, and an intent
\* naming a missing session would be refused.
C7_Witness ==
    /\ last.op = "build_transaction_intent"
    /\ last.err = "Ok"
    /\ last.ret.session_id # 0
    /\ store.IntentCounter = 1
    /\ \E i \in DOMAIN store.AuditLog :
          store.AuditLog[i].operation.operation_type = "intent"


\* The steps of the validation pipeline in the order the claim gives them:
\* <<the step fails, the error it gives>>.  A later step is stated under the
\* lookups of the earlier ones having succeeded.
PipelineSteps(st, lg, b) ==
    LET now == lg.timestamp
        configured == b.anchor \in DOMAIN st.AnchorServices
        found == <<b.anchor, b.quote_id>> \in DOMAIN st.Quote
        named == b.quote_id # 0
    IN << <<st.Admin = None, "NotInitialized">>,
          <<b.anchor \notin st.Attestor, "UnauthorizedAttestor">>,
          <<b.request.operation_type \notin {"Deposits", "Withdrawals"},
            "InvalidServiceType">>,
          <<b.request.amount = 0 \/ b.ttl_seconds = 0, "InvalidTransactionIntent">>,
          <<~configured, "ServicesNotConfigured">>,
          <<configured /\ \A i \in 1..Len(st.AnchorServices[b.anchor].services) :
                st.AnchorServices[b.anchor].services[i] # b.request.operation_type,
            "InvalidServiceType">>,
          <<configured /\ b.require_kyc
                /\ \A i \in 1..Len(st.AnchorServices[b.anchor].services) :
                      st.AnchorServices[b.anchor].services[i] # "KYC",
            "ComplianceNotMet">>,
          <<b.session_id # 0 /\ b.session_id \notin DOMAIN st.Session,
            "SessionNotFound">>,
          <<now + b.ttl_seconds > U64Max, "InvalidTransactionIntent">>,
          <<named /\ ~found, "QuoteNotFound">>,
          <<named /\ found /\ st.Quote[<<b.anchor, b.quote_id>>].valid_until <= now,
            "StaleQuote">>,
          <<named /\ found
                /\ (\/ st.Quote[<<b.anchor, b.quote_id>>].base_asset # b.request.base_asset
                    \/ st.Quote[<<b.anchor, b.quote_id>>].quote_asset # b.request.quote_asset
                    \/ b.request.amount < st.Quote[<<b.anchor, b.quote_id>>].minimum_amount
                    \/ b.request.amount > st.Quote[<<b.anchor, b.quote_id>>].maximum_amount),
            "InvalidQuote">> >>

\* The error of the earliest failing step, "Ok" when no step fails.
EarliestFailure(st, lg, b) ==
    LET steps == PipelineSteps(st, lg, b)
        failing == {i \in 1..Len(steps) : steps[i][1]}
    IN IF failing = {} THEN "Ok"
       ELSE steps[CHOOSE i \in failing : \A j \in failing : i <= j][2]

\* C8: the error build_transaction_intent returns is that of the earliest
\* failing step of the pipeline order NotInitialized, UnauthorizedAttestor,
\* InvalidServiceType (operation), InvalidTransactionIntent (amount, ttl),
\* ServicesNotConfigured, InvalidServiceType (not declared), ComplianceNotMet,
\* SessionNotFound, InvalidTransactionIntent (overflow), QuoteNotFound,
\* StaleQuote, InvalidQuote; the call succeeds exactly when no step fails.
C8_EarliestFailureWins ==
    \A b \in Builders : BuildResult(b).err = EarliestFailure(store, ledger, b)

\* A state where a call failing two steps at once is possible (the contract
\* is set up, a quote is stored and has gone stale, a session is missing)
\* and an intent has been built.
C8_Witness ==
    /\ store.Admin # None
    /\ "GA" \in store.Attestor
    /\ "GA" \in DOMAIN store.AnchorServices
    /\ store.IntentCounter > 0
    /\ \E k \in DOMAIN store.Quote : store.Quote[k].valid_until <= ledger.timestamp
    /\ \E b \in Builders :
          /\ BuildResult(b).err = "SessionNotFound"
          /\ b.ttl_seconds = U64Max
          /\ b.quote_id # 0

\* Steps 1 to 8 of the pipeline pass and the quote the builder names is stored.
ReachesQuoteChecks(st, lg, b) ==
    /\ b.quote_id # 0
    /\ <<b.anchor, b.quote_id>> \in DOMAIN st.Quote
    /\ \A i \in 1..9 : ~PipelineSteps(st, lg, b)[i][1]

\* C9: quote staleness boundary.  A call that passes the earlier checks and
\* names a stored quote with valid_until = T fails with StaleQuote when
\* now >= T and does not fail with StaleQuote when now < T, now = T - 1
\* included.
C9_StaleBoundary ==
    \A b \in Builders :
        ReachesQuoteChecks(store, ledger, b) =>
            LET T == store.Quote[<<b.anchor, b.quote_id>>].valid_until
                now == ledger.timestamp
            IN /\ now >= T => BuildResult(b).err = "StaleQuote"
               /\ now < T => BuildResult(b).err # "StaleQuote"

\* A quote that submit_quote accepted is refused as stale at now = valid_until.
C9_Witness ==
    /\ last.op = "build_transaction_intent"
    /\ last.err = "StaleQuote"
    /\ \E k \in DOMAIN store.Quote : store.Quote[k].valid_until = ledger.timestamp

Min(a, b) == IF a < b THEN a ELSE b

\* C10: expiry tightening.  A successful build_transaction_intent at time now
\* returns expires_at = now + ttl_seconds when quote_id = 0 and
\* min(now + ttl_seconds, quote.valid_until) when a quote is used; ttl 600 at
\* now 1000 with valid_until 1400 gives 1400.
C10_ExpiryTightened ==
    /\ \A b \in Builders :
          LET r == BuildResult(b)
              now == ledger.timestamp
          IN r.err = "Ok" =>
                r.ret.expires_at =
                    IF b.quote_id = 0 THEN now + b.ttl_seconds
                    ELSE Min(now + b.ttl_seconds,
                             store.Quote[<<b.anchor, b.quote_id>>].valid_until)
    /\ tighten_expiry(1000 + 600, [valid_until |-> 1400]) = 1400

\* An intent has been built whose expiry is its quote's valid_until, earlier
\* than created_at + ttl_seconds (the calls are made with ttl_seconds = 3).
C10_Witness ==
    /\ last.op = "build_transaction_intent"
    /\ last.err = "Ok"
    /\ last.ret.has_quote
    /\ last.ret.expires_at = store.Quote[<<last.ret.anchor, last.ret.quote_id>>].valid_until
    /\ last.ret.expires_at < last.ret.created_at + 3

\* C11: rate locking.  Every intent build_transaction_intent returns has
\* has_quote true exactly when the builder's quote_id is not 0; with a quote
\* its rate and fee_percentage are those of the stored quote (anchor,
\* quote_id), without one both are 0; quote_id, requires_kyc, session_id and
\* request are the builder's and created_at is the ledger time.
C11_RateLocked ==
    \A b \in Builders :
        LET r == BuildResult(b)
            k == <<b.anchor, b.quote_id>>
        IN r.err = "Ok" =>
             /\ r.ret.has_quote = (b.quote_id # 0)
             /\ r.ret.has_quote =>
                  /\ k \in DOMAIN store.Quote
                  /\ r.ret.rate = store.Quote[k].rate
                  /\ r.ret.fee_percentage = store.Quote[k].fee_percentage
             /\ ~r.ret.has_quote => (r.ret.rate = 0 /\ r.ret.fee_percentage = 0)
             /\ r.ret.quote_id = b.quote_id
             /\ r.ret.requires_kyc = b.require_kyc
             /\ r.ret.session_id = b.session_id
             /\ r.ret.request = b.request
             /\ r.ret.anchor = b.anchor
             /\ r.ret.created_at = ledger.timestamp

C11_Witness ==
    /\ last.op = "build_transaction_intent"
    /\ last.err = "Ok"
    /\ last.ret.has_quote
    /\ last.ret.rate > 0
    /\ last.ret.rate # last.ret.fee_percentage
    /\ last.ret.created_at = ledger.timestamp
    /\ ledger.timestamp > 0

\* C12: a successful build_transaction_intent bound to a session appends
\* exactly one audit entry to that session (operation_type "intent", status
\* "success", result_data the new intent id, actor the anchor) and raises
\* that session's operation count by one; a successful call with session_id 0
\* writes no audit entry and leaves every operation count as it was.
C12_IntentAudited ==
    \A b \in Builders :
        LET r == BuildResult(b)
            id == store.AuditLogCounter
        IN r.err = "Ok" =>
             IF b.session_id # 0
             THEN /\ DOMAIN r.st.AuditLog = DOMAIN store.AuditLog \cup {id}
                  /\ id \notin DOMAIN store.AuditLog
                  /\ \A i \in DOMAIN store.AuditLog : r.st.AuditLog[i] = store.AuditLog[i]
                  /\ r.st.AuditLog[id].session_id = b.session_id
                  /\ r.st.AuditLog[id].actor = b.anchor
                  /\ r.st.AuditLog[id].operation.operation_type = "intent"
                  /\ r.st.AuditLog[id].operation.status = "success"
                  /\ r.st.AuditLog[id].operation.result_data = r.ret.intent_id
                  /\ r.ret.intent_id = store.IntentCounter + 1
                  /\ storage_get_session_operation_count(r.st, b.session_id)
                       = storage_get_session_operation_count(store, b.session_id) + 1
                  /\ \A s \in IntentSessionIds \ {b.session_id} :
                        storage_get_session_operation_count(r.st, s)
                          = storage_get_session_operation_count(store, s)
             ELSE /\ r.st.AuditLog = store.AuditLog
                  /\ r.st.AuditLogCounter = store.AuditLogCounter
                  /\ r.st.SessionOperationCount = store.SessionOperationCount

C12_Witness ==
    /\ last.op = "build_transaction_intent"
    /\ last.err = "Ok"
    /\ last.ret.session_id # 0
    /\ \E i \in TrailOf(store, last.ret.session_id) :
          /\ store.AuditLog[i].operation.operation_type = "intent"
          /\ store.AuditLog[i].operation.result_data = last.ret.intent_id
          /\ store.AuditLog[i].actor = last.ret.anchor
    /\ \E b \in Builders : b.session_id = 0 /\ BuildResult(b).err = "Ok"

\* The services anchor declares, as a set.
DeclaredServices(st, anchor) ==
    {st.AnchorServices[anchor].services[i] :
        i \in 1..Len(st.AnchorServices[anchor].services)}

\* C13: compliance gating.  Every intent build_transaction_intent returns
\* names an anchor that is a registered attestor with services configured
\* that declare the request's operation_type, which is Deposits or
\* Withdrawals; an intent with requires_kyc names an anchor that declares
\* KYC, and a call that passes the checks before the KYC one with require_kyc
\* set and no KYC declared fails with ComplianceNotMet.
C13_ComplianceGated ==
    \A b \in Builders :
        LET r == BuildResult(b)
            op == b.request.operation_type
        IN /\ r.err = "Ok" =>
                /\ b.anchor \in store.Attestor
                /\ b.anchor \in DOMAIN store.AnchorServices
                /\ op \in DeclaredServices(store, b.anchor)
                /\ op \in {"Deposits", "Withdrawals"}
                /\ r.ret.requires_kyc => "KYC" \in DeclaredServices(store, b.anchor)
           /\ ( /\ store.Admin # None
                /\ b.anchor \in store.Attestor
                /\ op \in {"Deposits", "Withdrawals"}
                /\ b.request.amount # 0
                /\ b.ttl_seconds # 0
                /\ b.anchor \in DOMAIN store.AnchorServices
                /\ op \in DeclaredServices(store, b.anchor)
                /\ b.require_kyc
                /\ "KYC" \notin DeclaredServices(store, b.anchor) )
              => r.err = "ComplianceNotMet"

C13_Witness ==
    /\ last.op = "build_transaction_intent"
    /\ last.err = "Ok"
    /\ \E b \in Builders : BuildResult(b).err = "ComplianceNotMet"
    /\ \E b \in Builders :
          /\ b.request.operation_type = "Withdrawals"
          /\ BuildResult(b).err = "InvalidServiceType"

----------------------------------------------------------------------------
(* Quote registry: two anchors are registered and configured with or      *)
(* without the Quotes service; both submit quotes, against which intents   *)
(* are built while time advances.                                          *)

QuoteTerms ==
    [ base_asset     : {"USD"},
      quote_asset    : {"EUR"},
      rate           : {2},
      fee_percentage : {5},
      minimum_amount : {2},
      maximum_amount : {3},
      valid_until    : {1} ]

\* The builders the calls of the specification are made with.
RegistryCallBuilders ==
    [ anchor      : Address,
      request     : [ base_asset : {"USD"}, quote_asset : {"EUR"}, amount : {2},
                      operation_type : {"Deposits"} ],
      quote_id    : {1},
      require_kyc : {FALSE},
      session_id  : {0},
      ttl_seconds : {3} ]

RegistryBounds(st) ==
    /\ st.SessionCounter <= MaxSessions
    /\ st.AuditLogCounter <= MaxRegistryLogs
    /\ st.QuoteCounter <= MaxRegistryQuotes
    /\ st.IntentCounter <= MaxRegistryIntents

NextRegistry ==
    \/ Initialize({"GA"}) /\ RegistryBounds(store')
    \/ CreateSession({"GB"}) /\ RegistryBounds(store')
    \/ RegisterAttestorWithSession({0}, Address) /\ RegistryBounds(store')
    \/ ConfigureServices(Address, {<<"Deposits", "Quotes">>}) /\ RegistryBounds(store')
    \/ ConfigureServices({"GB"}, {<<"Deposits">>}) /\ RegistryBounds(store')
    \/ SubmitQuote(Address, QuoteTerms) /\ RegistryBounds(store')
    \/ BuildTransactionIntent(RegistryCallBuilders) /\ RegistryBounds(store')
    \/ Tick

SpecRegistry == Init /\ [][NextRegistry]_vars

\* The builders the quote-binding claim is stated over: quote ids issued and
\* never issued, either anchor, matching and mismatching requests.
RegistryRequests ==
    [ base_asset : {"USD"}, quote_asset : {"EUR"}, amount : 1..4,
      operation_type : {"Deposits"} ]
      \cup
    [ base_asset : {"XLM"}, quote_asset : {"EUR"}, amount : {2},
      operation_type : {"Deposits"} ]
      \cup
    [ base_asset : {"USD"}, quote_asset : {"USD"}, amount : {2},
      operation_type : {"Deposits"} ]

RegistryBuilders ==
    [ anchor      : Address,
      request     : RegistryRequests,
      quote_id    : 1..(MaxRegistryQuotes + 1),
      require_kyc : {FALSE},
      session_id  : {0},
      ttl_seconds : {3} ]

\* The checks made before the quote lookup pass (lib.rs:156-187).
PassesEarlierChecks(st, lg, b) ==
    /\ st.Admin # None
    /\ b.anchor \in st.Attestor
    /\ b.request.operation_type \in {"Deposits", "Withdrawals"}
    /\ b.request.amount # 0
    /\ b.ttl_seconds # 0
    /\ b.anchor \in DOMAIN st.AnchorServices
    /\ b.request.operation_type \in DeclaredServices(st, b.anchor)
    /\ b.require_kyc => "KYC" \in DeclaredServices(st, b.anchor)
    /\ b.session_id # 0 => b.session_id \in DOMAIN st.Session
    /\ lg.timestamp + b.ttl_seconds <= U64Max

\* C14: quote binding.  A build_transaction_intent call with quote_id # 0
\* that reaches the quote lookup fails with QuoteNotFound when no quote is
\* stored under (builder.anchor, quote_id), a quote of that id held by the
\* other anchor included; with a stored, unexpired quote it fails with
\* InvalidQuote exactly when an asset differs from the request's or the
\* amount lies outside [minimum_amount, maximum_amount], bounds inclusive.
C14_QuoteBinding ==
    \A b \in RegistryBuilders :
        PassesEarlierChecks(store, ledger, b) =>
            LET r == BuildResult(b)
                k == <<b.anchor, b.quote_id>>
            IN /\ k \notin DOMAIN store.Quote => r.err = "QuoteNotFound"
               /\ (k \in DOMAIN store.Quote
                     /\ store.Quote[k].valid_until > ledger.timestamp) =>
                    ( r.err = "InvalidQuote" <=>
                        \/ store.Quote[k].base_asset # b.request.base_asset
                        \/ store.Quote[k].quote_asset # b.request.quote_asset
                        \/ b.request.amount \notin
                             store.Quote[k].minimum_amount..store.Quote[k].maximum_amount )

\* An intent call has just failed to find its quote while the other
\* anchor holds a quote of an id this anchor can be asked for, and a
\* mismatching request on a held quote is possible.
C14_Witness ==
    /\ last.op = "build_transaction_intent"
    /\ last.err = "QuoteNotFound"
    /\ \E b \in RegistryBuilders :
          /\ PassesEarlierChecks(store, ledger, b)
          /\ \E k \in DOMAIN store.Quote : k[2] = b.quote_id /\ k[1] # b.anchor
          /\ BuildResult(b).err = "QuoteNotFound"
    /\ \E b \in RegistryBuilders :
          /\ b.request.base_asset = "USD"
          /\ b.request.quote_asset = "EUR"
          /\ BuildResult(b).err = "InvalidQuote"

\* The submit_quote calls the claims are stated over.
SubmitArgs == [anchor : Address, rate : {0, 2}, valid_until : 0..(MaxTime + 1)]

QuoteResult(a) ==
    submit_quote(store, ledger, a.anchor, "USD", "EUR", a.rate, 5, 2, 3, a.valid_until)

\* C15: submit_quote succeeds only if the anchor is a registered attestor
\* with services configured that include Quotes, rate # 0 and valid_until
\* later than the ledger time; every quote is stored with rate > 0 and a
\* valid_until later than the time it is stored at; and the passing of time
\* leaves the stored quotes as they are, expired ones included.
C15_QuoteAdmission ==
    /\ [](\A a \in SubmitArgs :
            QuoteResult(a).err = "Ok" =>
                /\ a.anchor \in store.Attestor
                /\ a.anchor \in DOMAIN store.AnchorServices
                /\ "Quotes" \in DeclaredServices(store, a.anchor)
                /\ a.rate # 0
                /\ a.valid_until > ledger.timestamp)
    /\ [](\A k \in DOMAIN store.Quote : store.Quote[k].rate > 0)
    /\ [][\A k \in DOMAIN store'.Quote \ DOMAIN store.Quote :
             /\ store'.Quote[k].rate > 0
             /\ store'.Quote[k].valid_until > ledger.timestamp]_vars
    /\ [][ledger' # ledger => store'.Quote = store.Quote]_vars

\* A submit_quote call has been refused for its terms while a quote stored
\* earlier has outlived its valid_until.
C15_Witness ==
    /\ last.op = "submit_quote"
    /\ last.err = "InvalidQuote"
    /\ \E k \in DOMAIN store.Quote : store.Quote[k].valid_until <= ledger.timestamp
    /\ \E a \in Address :
          /\ a \in store.Attestor
          /\ a \in DOMAIN store.AnchorServices
          /\ "Quotes" \notin DeclaredServices(store, a)

\* C16: quote ids come from one counter shared by the anchors.  A successful
\* submit_quote returns the counter plus one and advances it, whichever
\* anchor calls; a failed one leaves the counter and the quotes as they were;
\* the stored quotes carry the ids 1..QuoteCounter, each once over all
\* anchors, none 0, and each is stored under its own anchor and id.
C16_GlobalQuoteIds ==
    /\ [](\A a \in SubmitArgs :
            LET r == QuoteResult(a)
            IN IF r.err = "Ok"
               THEN /\ r.ret = store.QuoteCounter + 1
                    /\ r.st.QuoteCounter = store.QuoteCounter + 1
                    /\ <<a.anchor, r.ret>> \in DOMAIN r.st.Quote
               ELSE /\ r.st.QuoteCounter = store.QuoteCounter
                    /\ r.st.Quote = store.Quote)
    /\ [](\A k \in DOMAIN store.Quote :
            /\ store.Quote[k].quote_id = k[2]
            /\ store.Quote[k].anchor = k[1]
            /\ k[2] # 0)
    /\ [](\A k1, k2 \in DOMAIN store.Quote : k1[2] = k2[2] => k1 = k2)
    /\ []({k[2] : k \in DOMAIN store.Quote} = 1..store.QuoteCounter)
    /\ [][(last'.op = "submit_quote" /\ last'.err = "Ok" /\ store' # store)
            => last'.ret = store.QuoteCounter + 1]_vars

\* The two anchors hold one quote each, and the second id has just been
\* handed out.
C16_Witness ==
    /\ last.op = "submit_quote"
    /\ last.err = "Ok"
    /\ last.ret = 2
    /\ \E k1, k2 \in DOMAIN store.Quote : k1[1] # k2[1] /\ k1[2] = 1 /\ k2[2] = 2

----------------------------------------------------------------------------
(* Order of the attestation checks, on the attestation ledger (SpecAttest) *)

\* C18: on an existing session submit_attestation_with_session checks the
\* timestamp, then the issuer's registration, then the replay guard:
\* timestamp 0 gives InvalidTimestamp whatever the issuer and the hash; else
\* an unregistered issuer gives UnauthorizedAttestor whatever the hash; else
\* a used hash gives ReplayAttack; else the call succeeds, returns the next
\* attestation id, stores the attestation under it and marks the hash used.
C18_AttestChecksInOrder ==
    \A sid \in DOMAIN store.Session, issuer \in Address, subject \in Address,
       ts \in {0, 1}, h \in Hash :
        LET r == SubmitResult(sid, issuer, subject, ts, h)
            id == store.Counter
        IN IF ts = 0 THEN r.err = "InvalidTimestamp"
           ELSE IF issuer \notin store.Attestor THEN r.err = "UnauthorizedAttestor"
           ELSE IF h \in store.UsedHash THEN r.err = "ReplayAttack"
           ELSE /\ r.err = "Ok"
                /\ r.ret = id
                /\ id \notin DOMAIN store.Attestation
                /\ DOMAIN r.st.Attestation = DOMAIN store.Attestation \cup {id}
                /\ r.st.Attestation[id] = [ id           |-> id,
                                            issuer       |-> issuer,
                                            subject      |-> subject,
                                            timestamp    |-> ts,
                                            payload_hash |-> h,
                                            signature    |-> Signature ]
                /\ r.st.Counter = id + 1
                /\ r.st.UsedHash = store.UsedHash \cup {h}

\* An attestation has just been accepted on a session, so that a hash is
\* used, while an address is unregistered: calls failing two and three of
\* the checks at once are possible.
C18_Witness ==
    /\ last.op = "submit_attestation_with_session"
    /\ last.err = "Ok"
    /\ \E sid \in DOMAIN store.Session, issuer \in Address \ store.Attestor,
          h \in store.UsedHash :
          /\ SubmitResult(sid, issuer, "GB", 0, h).err = "InvalidTimestamp"
          /\ SubmitResult(sid, issuer, "GB", 1, h).err = "UnauthorizedAttestor"
    /\ \E sid \in DOMAIN store.Session, issuer \in store.Attestor,
          h \in store.UsedHash :
          SubmitResult(sid, issuer, "GB", 1, h).err = "ReplayAttack"

----------------------------------------------------------------------------
(* Administration: either address may become the admin; attestors are      *)
(* registered, revoked and registered again, in and out of a session.      *)

AdminSessionIds == 0..MaxAdminSessions

AdminBounds(st) ==
    /\ st.SessionCounter <= MaxAdminSessions
    /\ st.AuditLogCounter <= MaxAdminLogs

NextAdmin ==
    \/ Initialize(Address) /\ AdminBounds(store')
    \/ CreateSession(Address) /\ AdminBounds(store')
    \/ RegisterAttestorWithSession(AdminSessionIds, Address) /\ AdminBounds(store')
    \/ RevokeAttestorWithSession(AdminSessionIds, {"GA"}) /\ AdminBounds(store')

SpecAdmin == Init /\ [][NextAdmin]_vars

\* C19: attestor registry.  On an initialized contract and an existing
\* session, register_attestor_with_session(a) fails with
\* AttestorAlreadyRegistered exactly when a is registered and otherwise
\* succeeds and registers a; revoke_attestor_with_session(a) fails with
\* AttestorNotRegistered exactly when a is not registered and otherwise
\* succeeds and unregisters a; this holds after a revocation as before it, so
\* a revoked attestor can be registered again.
C19_AttestorRegistry ==
    \A sid \in DOMAIN store.Session, a \in Address :
        store.Admin # None =>
            LET reg == register_attestor_with_session(store, ledger, sid, a)
                rev == revoke_attestor_with_session(store, ledger, sid, a)
            IN IF a \in store.Attestor
               THEN /\ reg.err = "AttestorAlreadyRegistered"
                    /\ reg.st.Attestor = store.Attestor
                    /\ rev.err = "Ok"
                    /\ rev.st.Attestor = store.Attestor \ {a}
               ELSE /\ reg.err = "Ok"
                    /\ reg.st.Attestor = store.Attestor \cup {a}
                    /\ rev.err = "AttestorNotRegistered"
                    /\ rev.st.Attestor = store.Attestor

\* GA has been registered, revoked and, by the call just made, registered
\* again: the last two audit entries are a successful revoke (only GA is
\* ever revoked) and a successful register, and GA is registered.
C19_Witness ==
    /\ last.op = "register_attestor_with_session"
    /\ last.err = "Ok"
    /\ "GA" \in store.Attestor
    /\ store.AuditLogCounter >= 3
    /\ LET n == store.AuditLogCounter
       IN /\ store.AuditLog[n - 1].operation.operation_type = "register"
          /\ store.AuditLog[n - 1].operation.status = "success"
          /\ store.AuditLog[n - 2].operation.operation_type = "revoke"
          /\ store.AuditLog[n - 2].operation.status = "success"

\* C20: initialize succeeds at most once.  On a contract without admin it
\* sets the admin to its argument; on one with an admin it fails with
\* AlreadyInitialized and changes nothing; and no step of any operation
\* changes an admin once set.
C20_InitializeOnce ==
    /\ [](\A admin \in Address :
            LET r == initialize(store, admin)
            IN IF store.Admin = None
               THEN r.err = "Ok" /\ r.st.Admin = admin
               ELSE r.err = "AlreadyInitialized" /\ r.st = store)
    /\ [][store.Admin # None => store'.Admin = store.Admin]_vars
    /\ [][(last'.op = "initialize" /\ last'.err = "Ok") => store.Admin = None]_vars

\* A second initialize has just been refused on a contract that has been at
\* work under its first admin.
C20_Witness ==
    /\ last.op = "initialize"
    /\ last.err = "AlreadyInitialized"
    /\ store.Admin = "GB"
    /\ store.Attestor # {}
    /\ store.AuditLogCounter > 0

----------------------------------------------------------------------------
(* Stored records: one anchor is registered, configured, reconfigured and  *)
(* revoked while it submits quotes and attestations.                       *)

RecordBounds(st) ==
    /\ st.SessionCounter <= MaxSessions
    /\ st.AuditLogCounter <= MaxRecordLogs
    /\ st.QuoteCounter <= MaxRecordQuotes
    /\ st.Counter <= MaxRecordAttestations

NextRecords ==
    \/ Initialize({"GA"}) /\ RecordBounds(store')
    \/ CreateSession({"GB"}) /\ RecordBounds(store')
    \/ RegisterAttestorWithSession({0}, {"GA"}) /\ RecordBounds(store')
    \/ RevokeAttestorWithSession({0}, {"GA"}) /\ RecordBounds(store')
    \/ ConfigureServices({"GA"}, {<<"Deposits", "Quotes">>, <<"Deposits">>})
         /\ RecordBounds(store')
    \/ SubmitQuote({"GA"}, QuoteTerms) /\ RecordBounds(store')
    \/ SubmitAttestationWithSession({0}, {"GA"}, {"GB"}, {1}, Hash)
         /\ RecordBounds(store')

SpecRecords == Init /\ [][NextRecords]_vars

\* C17: stored quotes and stored attestations are immutable.  No step of
\* any operation, the revocation of the anchor or issuer and the
\* reconfiguration of its services included, removes or changes a quote
\* stored under (anchor, quote_id) or an attestation stored under its id.
C17_RecordsImmutable ==
    [][ /\ \A k \in DOMAIN store.Quote :
              k \in DOMAIN store'.Quote /\ store'.Quote[k] = store.Quote[k]
        /\ \A id \in DOMAIN store.Attestation :
              /\ id \in DOMAIN store'.Attestation
              /\ store'.Attestation[id] = store.Attestation[id] ]_vars

\* The anchor has dropped the Quotes service and has just been revoked
\* while two of its quotes and an attestation it issued are stored.
C17_Witness ==
    /\ last.op = "revoke_attestor_with_session"
    /\ last.err = "Ok"
    /\ "GA" \notin store.Attestor
    /\ "GA" \in DOMAIN store.AnchorServices
    /\ "Quotes" \notin DeclaredServices(store, "GA")
    /\ Cardinality(DOMAIN store.Quote) = 2
    /\ \E id \in DOMAIN store.Attestation : store.Attestation[id].issuer = "GA"

----------------------------------------------------------------------------
(* Service configuration: two anchors are registered and one revoked while *)
(* service lists, valid and invalid, are configured and reconfigured.      *)

ServiceLists ==
    { << >>, <<"Deposits">>, <<"Deposits", "Quotes">>, <<"Quotes", "Deposits">>,
      <<"Deposits", "Deposits">>, <<"KYC", "Deposits", "KYC">> }

ServiceBounds(st) ==
    /\ st.SessionCounter <= MaxSessions
    /\ st.AuditLogCounter <= MaxServiceLogs

NextServices ==
    \/ Initialize({"GA"}) /\ ServiceBounds(store')
    \/ CreateSession({"GB"}) /\ ServiceBounds(store')
    \/ RegisterAttestorWithSession({0}, Address) /\ ServiceBounds(store')
    \/ RevokeAttestorWithSession({0}, {"GA"}) /\ ServiceBounds(store')
    \/ ConfigureServices(Address, ServiceLists) /\ ServiceBounds(store')

SpecServices == Init /\ [][NextServices]_vars

\* The entries of a list, as a set.
Entries(list) == {list[i] : i \in 1..Len(list)}

\* C21: on an initialized contract configure_services rejects an empty list
\* or one with a duplicate with InvalidServiceType and an unregistered anchor
\* with AttestorNotRegistered, changing nothing; on success the anchor's
\* entry is the list given and nothing else changes; every stored entry is
\* non-empty and duplicate-free, is never removed, and changes only in a
\* successful configure_services.
C21_ServicesValid ==
    /\ [](\A anchor \in Address, list \in ServiceLists :
            store.Admin # None =>
                LET r == configure_services(store, anchor, list)
                IN IF Len(list) = 0 \/ Cardinality(Entries(list)) # Len(list)
                   THEN r.err = "InvalidServiceType" /\ r.st = store
                   ELSE IF anchor \notin store.Attestor
                   THEN r.err = "AttestorNotRegistered" /\ r.st = store
                   ELSE /\ r.err = "Ok"
                        /\ r.st = [store EXCEPT !.AnchorServices =
                                      [a \in DOMAIN store.AnchorServices \cup {anchor} |->
                                          IF a = anchor
                                          THEN [anchor |-> anchor, services |-> list]
                                          ELSE store.AnchorServices[a]]])
    /\ [](\A a \in DOMAIN store.AnchorServices :
            /\ store.AnchorServices[a].anchor = a
            /\ Len(store.AnchorServices[a].services) > 0
            /\ Cardinality(Entries(store.AnchorServices[a].services))
                 = Len(store.AnchorServices[a].services))
    /\ [][\A a \in DOMAIN store.AnchorServices :
             /\ a \in DOMAIN store'.AnchorServices
             /\ store'.AnchorServices[a] # store.AnchorServices[a]
                  => (last'.op = "configure_services" /\ last'.err = "Ok")]_vars

\* A configuration has just been accepted while the other anchor keeps a
\* different list and one of the two is no longer registered.
C21_Witness ==
    /\ last.op = "configure_services"
    /\ last.err = "Ok"
    /\ DOMAIN store.AnchorServices = Address
    /\ store.AnchorServices["GA"].services # store.AnchorServices["GB"].services
    /\ "GA" \notin store.Attestor

----------------------------------------------------------------------------
(* Sessions have no terminal state (checked on SpecRegistry, where time    *)
(* passes and operations are logged to the session).                       *)

\* The fields of a session record that identify it.
SessionIdentity(session) ==
    [ session_id |-> session.session_id,
      initiator  |-> session.initiator,
      created_at |-> session.created_at,
      nonce      |-> session.nonce ]

\* C22: a session that create_session returned is never closed: get_session
\* on it succeeds in every later state with the same session_id, initiator,
\* created_at and nonce it was created with, and an operation logged to it
\* is accepted whoever the actor is and however many were logged before.
C22_SessionsPermanent ==
    /\ [](\A s \in DOMAIN store.Session :
            /\ get_session(store, s).err = "Ok"
            /\ get_session(store, s).ret.session_id = s
            /\ \A actor \in Address :
                  log_session_operation(store, ledger, s, actor, "register",
                                        "success", 0).err = "Ok")
    /\ [][\A s \in DOMAIN store.Session :
             /\ get_session(store', s).err = "Ok"
             /\ SessionIdentity(get_session(store', s).ret)
                  = SessionIdentity(get_session(store, s).ret)]_vars
    /\ [][(last'.op = "create_session" /\ last'.err = "Ok") =>
             /\ last'.ret \notin DOMAIN store.Session
             /\ get_session(store', last'.ret).err = "Ok"
             /\ \E initiator \in Address :
                   SessionIdentity(get_session(store', last'.ret).ret)
                     = [ session_id |-> last'.ret,
                         initiator  |-> initiator,
                         created_at |-> ledger.timestamp,
                         nonce      |-> ledger.sequence ]]_vars

\* A session created at an earlier time has just had an operation logged.
C22_Witness ==
    /\ \E s \in DOMAIN store.Session :
          /\ storage_get_session_operation_count(store, s) >= 1
          /\ store.Session[s].created_at < ledger.timestamp
    /\ last.op = "register_attestor_with_session"
    /\ last.err = "Ok"

----------------------------------------------------------------------------
(* Read entry points, called between the calls that fill the store.        *)

\* A call of a read entry point with arguments args and result r.
ReadStep(op, args, r) ==
    /\ store' = r.st
    /\ last' = [op |-> op, err |-> r.err, ret |-> [args |-> args, value |-> r.ret]]
    /\ UNCHANGED <<ledger, accepted>>

ReadQuoteIds == 1..MaxReadQuotes
ReadSessionIds == 0..MaxSessions
ReadLogIds == 0..MaxReadLogs
ReadServices == {"Deposits", "Quotes"}

GetQuote ==
    \E anchor \in Address, quote_id \in ReadQuoteIds :
        ReadStep("get_quote", <<anchor, quote_id>>,
                 contract_get_quote(store, anchor, quote_id))

GetSession ==
    \E session_id \in ReadSessionIds :
        ReadStep("get_session", <<session_id>>, contract_get_session(store, session_id))

GetAuditLog ==
    \E log_id \in ReadLogIds :
        ReadStep("get_audit_log", <<log_id>>, get_audit_log(store, log_id))

GetSessionOperationCount ==
    \E session_id \in ReadSessionIds :
        ReadStep("get_session_operation_count", <<session_id>>,
                 get_session_operation_count(store, session_id))

GetSupportedServices ==
    \E anchor \in Address :
        ReadStep("get_supported_services", <<anchor>>,
                 get_supported_services(store, anchor))

CompareAnchorLists == { << >>, <<"GA">>, <<"GB", "GA">>, <<"GA", "GA">> }

CompareRequests ==
    [ base_asset : {"USD"}, quote_asset : {"EUR"}, amount : {1, 2},
      operation_type : {"Deposits"} ]

CompareRatesForAnchors ==
    \E request \in CompareRequests, anchors \in CompareAnchorLists :
        ReadStep("compare_rates_for_anchors", <<request, anchors>>,
                 compare_rates_for_anchors(store, ledger, request, anchors))

SupportsService ==
    \E anchor \in Address, service \in ReadServices :
        ReadStep("supports_service", <<anchor, service>>,
                 supports_service(store, anchor, service))

ReadBounds(st) ==
    /\ st.SessionCounter <= MaxSessions
    /\ st.AuditLogCounter <= MaxReadLogs
    /\ st.QuoteCounter <= MaxReadQuotes

NextReads ==
    \/ Initialize({"GA"}) /\ ReadBounds(store')
    \/ CreateSession({"GB"}) /\ ReadBounds(store')
    \/ RegisterAttestorWithSession({0}, {"GA"}) /\ ReadBounds(store')
    \/ ConfigureServices({"GA"}, {<<"Deposits", "Quotes">>}) /\ ReadBounds(store')
    \/ SubmitQuote({"GA"}, QuoteTerms) /\ ReadBounds(store')
    \/ GetQuote /\ ReadBounds(store')
    \/ GetSession /\ ReadBounds(store')
    \/ GetAuditLog /\ ReadBounds(store')
    \/ GetSessionOperationCount /\ ReadBounds(store')
    \/ GetSupportedServices /\ ReadBounds(store')
    \/ SupportsService /\ ReadBounds(store')
    \/ CompareRatesForAnchors /\ ReadBounds(store')

SpecReads == Init /\ [][NextReads]_vars

ReadOps ==
    { "get_quote", "get_session", "get_audit_log", "get_session_operation_count",
      "get_supported_services", "supports_service" }

\* C23: the six read entry points leave every store entry and counter as
\* they found them, whatever their arguments and result; a missing quote
\* gives QuoteNotFound, a missing session or audit log id SessionNotFound;
\* and a read repeated with the same arguments directly after itself
\* returns the same result.
C23_ReadsPure ==
    /\ [](/\ \A anchor \in Address, quote_id \in ReadQuoteIds :
               LET r == contract_get_quote(store, anchor, quote_id)
               IN /\ r.st = store
                  /\ r.err = IF <<anchor, quote_id>> \in DOMAIN store.Quote
                             THEN "Ok" ELSE "QuoteNotFound"
          /\ \A session_id \in ReadSessionIds :
               LET r == contract_get_session(store, session_id)
                   n == get_session_operation_count(store, session_id)
               IN /\ r.st = store /\ n.st = store
                  /\ r.err = IF session_id \in DOMAIN store.Session
                             THEN "Ok" ELSE "SessionNotFound"
                  /\ n.err = r.err
          /\ \A log_id \in ReadLogIds :
               LET r == get_audit_log(store, log_id)
               IN /\ r.st = store
                  /\ r.err = IF log_id \in DOMAIN store.AuditLog
                             THEN "Ok" ELSE "SessionNotFound"
          /\ \A anchor \in Address, service \in ReadServices :
               /\ get_supported_services(store, anchor).st = store
               /\ supports_service(store, anchor, service).st = store)
    /\ [][last'.op \in ReadOps => store' = store]_vars
    /\ [][(last.op \in ReadOps /\ last'.op = last.op /\ last'.ret.args = last.ret.args)
             => (last'.err = last.err /\ last'.ret.value = last.ret.value)]_vars

\* A quote that does not exist has just been asked for while another is
\* stored and the session has logged an operation.
C23_Witness ==
    /\ last.op = "get_quote"
    /\ last.err = "QuoteNotFound"
    /\ store.Quote # << >>
    /\ get_session_operation_count(store, 0).err = "Ok"
    /\ get_session_operation_count(store, 0).ret >= 1

----------------------------------------------------------------------------
(* Rate selection: the effective rate and the best-quote scan applied to   *)
(* lists of valid quotes.  The list and the amount are drawn at the start  *)
(* and carried in last.ret.input.                                          *)

RateTerms == [rate : {9900, 10000}, fee_percentage : {0, 50, 101}]
RateAmounts == {3, 250, 1000}

\* Lists of valid quotes; a quote's id is its position in the list.
ValidQuoteLists ==
    UNION { { [i \in 1..n |-> [ rate           |-> f[i].rate,
                                fee_percentage |-> f[i].fee_percentage,
                                quote_id       |-> i ]] : f \in [1..n -> RateTerms] }
            : n \in 1..MaxValidQuotes }

RateInputs == [valid_quotes : ValidQuoteLists, amount : RateAmounts]

InitRates ==
    /\ store = EmptyStore
    /\ ledger = [timestamp |-> 0, sequence |-> 0]
    /\ accepted = [h \in Hash |-> 0]
    /\ \E input \in RateInputs :
          last = [op |-> "input", err |-> "Ok",
                  ret |-> [input |-> input, value |-> NoValue]]

CalculateEffectiveRate ==
    /\ \E i \in 1..Len(last.ret.input.valid_quotes) :
          last' = [op |-> "calculate_effective_rate", err |-> "Ok",
                   ret |-> [input |-> last.ret.input,
                            value |-> <<i, calculate_effective_rate(
                                              last.ret.input.valid_quotes[i],
                                              last.ret.input.amount)>>]]
    /\ UNCHANGED <<store, ledger, accepted>>

SelectBestQuote ==
    /\ last' = [op |-> "select_best_quote", err |-> "Ok",
                ret |-> [input |-> last.ret.input,
                         value |-> select_best_quote(last.ret.input.valid_quotes,
                                                     last.ret.input.amount)]]
    /\ UNCHANGED <<store, ledger, accepted>>

NextRates ==
    \/ CalculateEffectiveRate
    \/ SelectBestQuote

SpecRates == InitRates /\ [][NextRates]_vars

\* rate * (amount + amount * fee_bps / 10000) / amount, both divisions floored.
EffectiveRate(rate, fee_bps, amount) ==
    (rate * (amount + (amount * fee_bps) \div 10000)) \div amount

QuoteA == [rate |-> 10000, fee_percentage |-> 0, quote_id |-> 1]
QuoteB == [rate |-> 9900, fee_percentage |-> 50, quote_id |-> 2]

\* C24: the effective rate of a quote is rate * (amount + amount * fee_bps /
\* 10000) / amount with floor division; over a non-empty list of valid
\* quotes the best quote is a member with the least effective rate, and
\* among those the first in list order; at amount 1000 A (10000, 0 bps) has
\* effective rate 10000, B (9900, 50 bps) has 9949, and B is selected.
C24_RateSelection ==
    LET input == last.ret.input
        quotes == input.valid_quotes
        eff(i) == EffectiveRate(quotes[i].rate, quotes[i].fee_percentage, input.amount)
        best == select_best_quote(quotes, input.amount)
    IN /\ \A i \in 1..Len(quotes) :
             calculate_effective_rate(quotes[i], input.amount) = eff(i)
       /\ \E b \in 1..Len(quotes) :
             /\ best.best_quote = quotes[b]
             /\ best.best_effective_rate = eff(b)
             /\ \A j \in 1..Len(quotes) : eff(b) <= eff(j)
             /\ \A j \in 1..(b - 1) : eff(b) < eff(j)
       /\ last.op = "calculate_effective_rate"
             => last.ret.value[2] = eff(last.ret.value[1])
       /\ last.op = "select_best_quote" => last.ret.value = best
       /\ (quotes = <<QuoteA, QuoteB>> /\ input.amount = 1000) =>
             /\ calculate_effective_rate(QuoteA, 1000) = 10000
             /\ calculate_effective_rate(QuoteB, 1000) = 9949
             /\ best.best_quote = QuoteB

\* B has just been selected over A at amount 1000.
C24_Witness ==
    /\ last.op = "select_best_quote"
    /\ last.ret.input.valid_quotes = <<QuoteA, QuoteB>>
    /\ last.ret.input.amount = 1000
    /\ last.ret.value.best_quote = QuoteB

\* Two quotes tie on the least effective rate and the earlier one is kept.
C24_TieWitness ==
    /\ last.op = "select_best_quote"
    /\ Len(last.ret.input.valid_quotes) = 3
    /\ last.ret.value.best_quote.quote_id = 2
    /\ calculate_effective_rate(last.ret.input.valid_quotes[3], last.ret.input.amount)
         = last.ret.value.best_effective_rate

----------------------------------------------------------------------------
(* Credential expiry and rotation, applied to credentials, policies and    *)
(* times drawn at the start and carried in last.ret.input.                 *)

Credentials ==
    [ created_at        : {0, 1000, 60000},
      expires_at        : {0, 2000},
      rotation_required : BOOLEAN ]

Policies == [rotation_interval_seconds : {0, 500, 86400}]

Timestamps == {0, 1000, 1500, 2000, 2500, 50000, 90000}

CredentialInputs ==
    [credential : Credentials, policy : Policies, current_timestamp : Timestamps]

InitCredential ==
    /\ store = EmptyStore
    /\ ledger = [timestamp |-> 0, sequence |-> 0]
    /\ accepted = [h \in Hash |-> 0]
    /\ \E input \in CredentialInputs :
          last = [op |-> "input", err |-> "Ok",
                  ret |-> [input |-> input, value |-> NoValue]]

IsExpired ==
    /\ last' = [op |-> "is_expired", err |-> "Ok",
                ret |-> [input |-> last.ret.input,
                         value |-> is_expired(last.ret.input.credential,
                                              last.ret.input.current_timestamp)]]
    /\ UNCHANGED <<store, ledger, accepted>>

NeedsRotation ==
    /\ last' = [op |-> "needs_rotation", err |-> "Ok",
                ret |-> [input |-> last.ret.input,
                         value |-> needs_rotation(last.ret.input.credential,
                                                  last.ret.input.current_timestamp,
                                                  last.ret.input.policy)]]
    /\ UNCHANGED <<store, ledger, accepted>>

NextCredential ==
    \/ IsExpired
    \/ NeedsRotation

SpecCredential == InitCredential /\ [][NextCredential]_vars

\* C25: needs_rotation(now, policy) is true exactly when rotation_required
\* is set, or the policy's interval is positive and now - created_at, taken
\* as zero when negative, is at least the interval; with created_at 1000
\* and interval 86400 and no flag it is false at 1000 and 50000 and true at
\* 90000.
C25_NeedsRotation ==
    LET input == last.ret.input
        c == input.credential
        now == input.current_timestamp
        interval == input.policy.rotation_interval_seconds
        age == IF now - c.created_at > 0 THEN now - c.created_at ELSE 0
        due == c.rotation_required \/ (interval > 0 /\ age >= interval)
    IN /\ needs_rotation(c, now, input.policy) = due
       /\ last.op = "needs_rotation" => last.ret.value = due
       /\ (c.created_at = 1000 /\ interval = 86400 /\ ~c.rotation_required) =>
             /\ now \in {1000, 50000} => ~needs_rotation(c, now, input.policy)
             /\ now = 90000 => needs_rotation(c, now, input.policy)

\* A credential created after the time asked about, with a positive
\* interval and no flag, has just been found not to need rotation.
C25_Witness ==
    /\ last.op = "needs_rotation"
    /\ last.ret.value = FALSE
    /\ last.ret.input.credential.created_at > last.ret.input.current_timestamp
    /\ last.ret.input.policy.rotation_interval_seconds > 0
    /\ last.ret.input.current_timestamp > 0

\* C26: is_expired(now) is true exactly when expires_at > 0 and
\* now >= expires_at; a credential with expires_at 0 never expires.
C26_IsExpired ==
    LET input == last.ret.input
        c == input.credential
        now == input.current_timestamp
        expired == c.expires_at > 0 /\ ~(now < c.expires_at)
    IN /\ is_expired(c, now) = expired
       /\ last.op = "is_expired" => last.ret.value = expired
       /\ c.expires_at = 0 => ~is_expired(c, now)
       /\ c.expires_at = 2000 =>
             /\ now = 1500 => ~is_expired(c, now)
             /\ now \in {2000, 2500} => is_expired(c, now)

\* A credential has just been found expired at exactly its expiry time.
C26_Witness ==
    /\ last.op = "is_expired"
    /\ last.ret.value = TRUE
    /\ last.ret.input.current_timestamp = last.ret.input.credential.expires_at

----------------------------------------------------------------------------
(* Order of the submit_quote checks (checked on SpecRegistry).             *)

\* The terms of a submission are unacceptable at the current ledger time.
BadTerms(a) == a.rate = 0 \/ ~(a.valid_until > ledger.timestamp)

\* The error of the service check for an anchor, "Ok" if it passes.
ServiceCheck(anchor) ==
    IF anchor \notin DOMAIN store.AnchorServices THEN "ServicesNotConfigured"
    ELSE IF "Quotes" \notin DeclaredServices(store, anchor) THEN "InvalidServiceType"
    ELSE "Ok"

\* C28 as stated: the checks run in the order attestor, services, terms, so
\* a registered anchor without configured services that submits rate 0 or a
\* past valid_until receives ServicesNotConfigured.
C28_ServicesBeforeTerms ==
    \A a \in SubmitArgs :
        QuoteResult(a).err =
            IF a.anchor \notin store.Attestor THEN "UnauthorizedAttestor"
            ELSE IF ServiceCheck(a.anchor) # "Ok" THEN ServiceCheck(a.anchor)
            ELSE IF BadTerms(a) THEN "InvalidQuote"
            ELSE "Ok"

\* C28 as amended: the checks run in the order attestor, terms, services, so
\* a registered anchor without configured services that submits rate 0 or a
\* past valid_until receives InvalidQuote, and ServicesNotConfigured or
\* InvalidServiceType only when its terms are acceptable.
C28_TermsBeforeServices ==
    \A a \in SubmitArgs :
        QuoteResult(a).err =
            IF a.anchor \notin store.Attestor THEN "UnauthorizedAttestor"
            ELSE IF BadTerms(a) THEN "InvalidQuote"
            ELSE IF ServiceCheck(a.anchor) # "Ok" THEN ServiceCheck(a.anchor)
            ELSE "Ok"

\* An anchor registered in a session, without configured services, has just
\* been refused for the terms of its quote.
C28_Witness ==
    /\ last.op = "submit_quote"
    /\ last.err = "InvalidQuote"
    /\ \E a \in store.Attestor : a \notin DOMAIN store.AnchorServices
    /\ \A a \in store.Attestor : ServiceCheck(a) # "Ok"
    /\ store.Session # << >>
    /\ store.AuditLog # << >>

----------------------------------------------------------------------------
(* Revocation (checked on SpecRecords).                                    *)

----------------------------------------------------------------------------
(* The audit log as a whole (checked on SpecTrail).                        *)

\* The operation counts of the sessions in S, added up.
RECURSIVE OperationTotal(_, _)
OperationTotal(st, S) ==
    IF S = {} THEN 0
    ELSE LET s == CHOOSE x \in S : TRUE
         IN storage_get_session_operation_count(st, s) + OperationTotal(st, S \ {s})

\* C30: the audit log is append-only and gap-free.  The entries carry the
\* log ids 0, 1, 2, ... up to the audit counter, each stored under its own
\* id; a step adds at most the entry whose id is the counter before the
\* step, and changes or removes none; every entry names an existing
\* session; and the number of entries is the sum of the operation counts
\* of all sessions.
C30_AuditAppendOnly ==
    /\ [](/\ DOMAIN store.AuditLog = 0..(store.AuditLogCounter - 1)
          /\ \A i \in DOMAIN store.AuditLog :
                /\ store.AuditLog[i].log_id = i
                /\ store.AuditLog[i].session_id \in DOMAIN store.Session
                /\ store.AuditLog[i].operation.session_id = store.AuditLog[i].session_id
          /\ Cardinality(DOMAIN store.AuditLog)
               = OperationTotal(store, DOMAIN store.Session))
    /\ [][/\ \A i \in DOMAIN store.AuditLog :
                /\ i \in DOMAIN store'.AuditLog
                /\ store'.AuditLog[i] = store.AuditLog[i]
          /\ DOMAIN store'.AuditLog \ DOMAIN store.AuditLog
               \subseteq {store.AuditLogCounter}]_vars

\* Three entries have been written, over two sessions, the last of them
\* for a refused attestation.
C30_Witness ==
    /\ store.AuditLogCounter >= 3
    /\ \E i, j \in DOMAIN store.AuditLog :
          store.AuditLog[i].session_id # store.AuditLog[j].session_id
    /\ last.op = "submit_attestation_with_session"
    /\ last.err = "UnauthorizedAttestor"
    /\ store.AuditLog[store.AuditLogCounter - 1].operation.status = "failed"

----------------------------------------------------------------------------
(* Interleaving: callers take turns, each call running to completion, in   *)
(* every order the entry points allow.                                     *)

ConcSessionIds == 0..(MaxConcSessions - 1)

ConcBuilders ==
    [ anchor      : {"GA"},
      request     : [ base_asset : {"USD"}, quote_asset : {"EUR"}, amount : {2},
                      operation_type : {"Deposits"} ],
      quote_id    : {0, 1},
      require_kyc : {FALSE},
      session_id  : ConcSessionIds,
      ttl_seconds : {3} ]

ConcBounds(st) ==
    /\ st.SessionCounter <= MaxConcSessions
    /\ st.AuditLogCounter <= MaxConcLogs
    /\ st.Counter <= MaxConcAttestations
    /\ st.QuoteCounter <= MaxConcQuotes
    /\ st.IntentCounter <= MaxConcIntents

NextConc ==
    \/ Initialize({"GA"}) /\ ConcBounds(store')
    \/ CreateSession({"GB"}) /\ ConcBounds(store')
    \/ SubmitAttestationWithSession({0}, {"GA"}, {"GB"}, {1}, Hash)
         /\ ConcBounds(store')
    \/ RegisterAttestorWithSession({0}, {"GA"}) /\ ConcBounds(store')
    \/ RevokeAttestorWithSession({0}, {"GA"}) /\ ConcBounds(store')
    \/ ConfigureServices({"GA"}, {<<"Deposits", "Quotes">>}) /\ ConcBounds(store')
    \/ SubmitQuote({"GA"}, QuoteTerms) /\ ConcBounds(store')
    \/ BuildTransactionIntent(ConcBuilders) /\ ConcBounds(store')

SpecConc == Init /\ [][NextConc]_vars

\* C27: under every interleaving of create_session,
\* submit_attestation_with_session, register and revoke, submit_quote and
\* build_transaction_intent, each successful create_session returns an id
\* no earlier one returned, each attestation and each audit entry is stored
\* under an id of its own and never overwritten, no two audit entries of
\* one session share an operation_index, and the attestation, quote,
\* intent, session and audit counters and every session's operation count
\* never decrease.
C27_IdsUnique ==
    /\ [](/\ \A s \in DOMAIN store.Session : store.Session[s].session_id = s
          /\ \A id \in DOMAIN store.Attestation : store.Attestation[id].id = id
          /\ \A i \in DOMAIN store.AuditLog : store.AuditLog[i].log_id = i
          /\ \A i, j \in DOMAIN store.AuditLog :
                (i # j /\ store.AuditLog[i].session_id = store.AuditLog[j].session_id)
                    => store.AuditLog[i].operation.operation_index
                         # store.AuditLog[j].operation.operation_index)
    /\ [][/\ (last'.op = "create_session" /\ last'.err = "Ok") =>
                /\ last'.ret \notin DOMAIN store.Session
                /\ DOMAIN store'.Session = DOMAIN store.Session \cup {last'.ret}
          /\ (last'.op = "submit_attestation_with_session" /\ last'.err = "Ok") =>
                /\ last'.ret \notin DOMAIN store.Attestation
                /\ DOMAIN store'.Attestation = DOMAIN store.Attestation \cup {last'.ret}
          /\ \A s \in DOMAIN store.Session : store'.Session[s] = store.Session[s]
          /\ \A id \in DOMAIN store.Attestation :
                store'.Attestation[id] = store.Attestation[id]
          /\ \A i \in DOMAIN store.AuditLog : store'.AuditLog[i] = store.AuditLog[i]]_vars
    /\ [][/\ store'.Counter >= store.Counter
          /\ store'.QuoteCounter >= store.QuoteCounter
          /\ store'.IntentCounter >= store.IntentCounter
          /\ store'.SessionCounter >= store.SessionCounter
          /\ store'.AuditLogCounter >= store.AuditLogCounter
          /\ \A s \in DOMAIN store.Session :
                storage_get_session_operation_count(store', s)
                  >= storage_get_session_operation_count(store, s)]_vars

\* Two sessions are open, and the registration and two attestations are
\* stored and logged in one of them.
C27_Witness ==
    /\ Cardinality(DOMAIN store.Session) = 2
    /\ Cardinality(DOMAIN store.Attestation) = 2
    /\ \E i, j, k \in DOMAIN store.AuditLog :
          /\ i < j /\ j < k
          /\ store.AuditLog[i].operation.operation_type = "register"
          /\ store.AuditLog[j].operation.operation_type = "attest"
          /\ store.AuditLog[k].operation.operation_type = "attest"
          /\ store.AuditLog[k].operation.status = "success"

----------------------------------------------------------------------------
(* Rate comparison through the entry point (checked on SpecReads).         *)

\* C31: compare_rates_for_anchors fails with NoQuotesAvailable for every
\* request and every list of anchors in every reachable state, whatever
\* quotes are stored, and leaves the store as it was.
C31_NoQuotesAvailable ==
    /\ [](\A request \in CompareRequests, anchors \in CompareAnchorLists :
            LET r == compare_rates_for_anchors(store, ledger, request, anchors)
            IN r.err = "NoQuotesAvailable" /\ r.st = store)
    /\ [][last'.op = "compare_rates_for_anchors" =>
             (last'.err = "NoQuotesAvailable" /\ store' = store)]_vars

\* A comparison for an amount the anchor's stored, unexpired quote covers
\* has just failed.
C31_Witness ==
    /\ last.op = "compare_rates_for_anchors"
    /\ last.err = "NoQuotesAvailable"
    /\ last.ret.args[2] = <<"GB", "GA">>
    /\ \E k \in DOMAIN store.Quote :
          /\ k[1] = "GA"
          /\ store.Quote[k].valid_until > ledger.timestamp
          /\ store.Quote[k].minimum_amount <= last.ret.args[1].amount
          /\ last.ret.args[1].amount <= store.Quote[k].maximum_amount

----------------------------------------------------------------------------
(* Session 0 and the intent builder (checked on SpecConc, where the        *)
(* session-aware calls name session 0 and intents name session 0 or 1).    *)

WithSessionOps ==
    { "submit_attestation_with_session", "register_attestor_with_session",
      "revoke_attestor_with_session" }

\* C32: the first successful create_session returns 0 and the sessions are
\* numbered from 0 without gaps; build_transaction_intent with session_id 0
\* neither looks the session up (it never fails with SessionNotFound,
\* whether or not session 0 exists) nor writes an audit entry, so no
\* build_transaction_intent step adds an entry to session 0; a successful
\* _with_session call naming session 0 adds exactly one.
C32_SessionZero ==
    /\ [](/\ DOMAIN store.Session = 0..(store.SessionCounter - 1)
          /\ \A b \in ConcBuilders :
                b.session_id = 0 =>
                    LET r == build_transaction_intent(store, ledger, b)
                    IN /\ r.err # "SessionNotFound"
                       /\ r.st.AuditLog = store.AuditLog
                       /\ r.st.SessionOperationCount = store.SessionOperationCount)
    /\ [][(last'.op = "create_session" /\ last'.err = "Ok" /\ store.Session = << >>)
             => last'.ret = 0]_vars
    /\ [][last'.op = "build_transaction_intent"
             => TrailOf(store', 0) = TrailOf(store, 0)]_vars
    /\ [][(last'.op \in WithSessionOps /\ last'.err = "Ok")
             => /\ 0 \in DOMAIN store.Session
                /\ TrailOf(store', 0) = TrailOf(store, 0) \cup {store.AuditLogCounter}
                /\ store.AuditLogCounter \notin TrailOf(store, 0)]_vars

\* An intent naming session 0 has just been built while session 0 exists
\* and holds the entries of the session-aware calls only.
C32_Witness ==
    /\ last.op = "build_transaction_intent"
    /\ last.err = "Ok"
    /\ last.ret.session_id = 0
    /\ 0 \in DOMAIN store.Session
    /\ TrailOf(store, 0) # {}
    /\ \A i \in TrailOf(store, 0) : store.AuditLog[i].operation.operation_type # "intent"

----------------------------------------------------------------------------
(* The operation_count field of the session record (checked on SpecTrail). *)

\* C33: the record get_session returns has operation_count 0 in every
\* reachable state, while get_session_operation_count returns the number
\* of operations logged for the session; a step that logs an operation
\* changes the per-session counter and leaves the session record alone.
C33_RecordCountZero ==
    /\ [](\A sid \in DOMAIN store.Session :
            /\ contract_get_session(store, sid).err = "Ok"
            /\ contract_get_session(store, sid).ret.operation_count = 0
            /\ get_session_operation_count(store, sid).ret
                 = Cardinality(TrailOf(store, sid)))
    /\ [][\A sid \in DOMAIN store.Session :
             storage_get_session_operation_count(store', sid)
               # storage_get_session_operation_count(store, sid)
                 => store'.Session[sid] = store.Session[sid]]_vars

\* A session has two logged operations, the second just accepted.
C33_Witness ==
    /\ last.op = "submit_attestation_with_session"
    /\ last.err = "Ok"
    /\ \E sid \in DOMAIN store.Session :
          /\ get_session_operation_count(store, sid).ret = 2
          /\ contract_get_session(store, sid).ret.operation_count = 0

----------------------------------------------------------------------------
(* Transfers and intents: both draw their ids from the intent counter.     *)

InitiateTransfer(Senders, Amounts) ==
    \E sender \in Senders, destination \in Address, amount \in Amounts :
        /\ Step("initiate_transfer",
                initiate_transfer(store, sender, destination, amount))
        /\ UNCHANGED accepted

\* Builders that pass for a registered, configured anchor, and ones that
\* fail on the amount or on the operation.
TransferBuilders ==
    [ anchor      : {"GA"},
      request     : [ base_asset : {"USD"}, quote_asset : {"EUR"}, amount : {0, 2},
                      operation_type : {"Deposits", "Quotes"} ],
      quote_id    : {0},
      require_kyc : {FALSE},
      session_id  : {0, 1},
      ttl_seconds : {3} ]

TransferBounds(st) ==
    /\ st.SessionCounter <= MaxSessions
    /\ st.AuditLogCounter <= MaxTransferLogs
    /\ st.IntentCounter <= MaxTransferIds

NextTransfer ==
    \/ Initialize({"GA"}) /\ TransferBounds(store')
    \/ CreateSession({"GB"}) /\ TransferBounds(store')
    \/ RegisterAttestorWithSession({0}, {"GA"}) /\ TransferBounds(store')
    \/ ConfigureServices({"GA"}, {<<"Deposits", "Quotes">>}) /\ TransferBounds(store')
    \/ BuildTransactionIntent(TransferBuilders) /\ TransferBounds(store')
    \/ InitiateTransfer({"GB"}, {0, 5}) /\ TransferBounds(store')

SpecTransfer == Init /\ [][NextTransfer]_vars

\* The id a successful build_transaction_intent or initiate_transfer returned.
ReturnedId(l) == IF l.op = "initiate_transfer" THEN l.ret ELSE l.ret.intent_id

IdOps == {"build_transaction_intent", "initiate_transfer"}

\* C34: a successful build_transaction_intent or initiate_transfer returns
\* the intent counter plus one and advances the counter to it, so the ids
\* returned are 1, 2, 3, ... in call order over both and none is returned
\* twice; initiate_transfer succeeds and advances the counter whether or
\* not the contract is initialized; a failed build_transaction_intent and
\* every other call leave the counter as it was.
C34_SharedIntentCounter ==
    /\ [](\A sender \in Address, amount \in {0, 5} :
            LET r == initiate_transfer(store, sender, "GA", amount)
            IN /\ r.err = "Ok"
               /\ r.ret = store.IntentCounter + 1
               /\ r.st = [store EXCEPT !.IntentCounter = @ + 1])
    /\ [][(last'.op \in IdOps /\ last'.err = "Ok") =>
             /\ ReturnedId(last') = store.IntentCounter + 1
             /\ store'.IntentCounter = ReturnedId(last')]_vars
    /\ [][(last'.op \notin IdOps \/ last'.err # "Ok") =>
             store'.IntentCounter = store.IntentCounter]_vars

\* A second transfer has just been numbered on a contract that was never
\* initialized.
C34_Witness ==
    /\ last.op = "initiate_transfer"
    /\ last.err = "Ok"
    /\ last.ret = 2
    /\ store.Admin = None

----------------------------------------------------------------------------
(* Lifetime of an intent (checked on SpecIntent).                          *)

\* C35: every intent build_transaction_intent returns has
\* created_at < expires_at <= created_at + ttl_seconds, and with a quote
\* also expires_at <= the quote's valid_until; it has not expired at the
\* ledger time it is issued at.
C35_IntentLifetime ==
    /\ \A b \in Builders :
          LET r == BuildResult(b)
          IN r.err = "Ok" =>
                /\ r.ret.created_at = ledger.timestamp
                /\ r.ret.created_at < r.ret.expires_at
                /\ r.ret.expires_at <= r.ret.created_at + b.ttl_seconds
                /\ r.ret.has_quote =>
                      r.ret.expires_at
                        <= store.Quote[<<b.anchor, b.quote_id>>].valid_until
    /\ (last.op = "build_transaction_intent" /\ last.err = "Ok") =>
          /\ last.ret.created_at = ledger.timestamp
          /\ last.ret.created_at < last.ret.expires_at
          /\ last.ret.has_quote =>
                last.ret.expires_at
                  <= store.Quote[<<last.ret.anchor, last.ret.quote_id>>].valid_until

\* An intent has just been built on a quote at a time after the start,
\* expiring when the quote does and before its own ttl runs out.
C35_Witness ==
    /\ last.op = "build_transaction_intent"
    /\ last.err = "Ok"
    /\ last.ret.has_quote
    /\ last.ret.created_at >= 1
    /\ last.ret.expires_at = last.ret.created_at + 1
    /\ ledger.timestamp = last.ret.created_at

====
